---- MODULE Spec2Model ----
(***************************************************************************)
(* claude-code-memory: the session-end recorder (save-memory.js), the      *)
(* session-start scheduler (check-synthesis.js) and the synthesis engine   *)
(* (synthesize-memory.js), coordinated through the files under             *)
(* ~/.claude/memory: memory-config.json, sessions/session_*.json,          *)
(* MEMORY.md and synthesis/last-synthesis.json.                            *)
(*                                                                         *)
(* Text is a sequence of one-character strings, so that toLowerCase, trim, *)
(* includes and slice are computed rather than assumed.  Time is counted   *)
(* in seconds, the precision of the session file names.                    *)
(***************************************************************************)
EXTENDS Integers, Sequences, FiniteSets, TLC

VARIABLES
    configFile,     \* memory-config.json: the keys it specifies (<<>>: no file)
    clock,          \* the wall clock, in seconds
    sessions,       \* sessions/: file name -> Session Record
    memoryMd,       \* MEMORY.md: its lines, or <<>> while it does not exist
    lastSynthesis,  \* synthesis/last-synthesis.json: last_synthesis, or Never
    synth,          \* the synthesize-memory.js process
    spawned,        \* background synthesis runs launched by check-synthesis.js
    hook,           \* the save-memory.js process: its stdin payload and outcome
    check           \* the check-synthesis.js process: its environment and outcome

vars ==
    <<configFile, clock, sessions, memoryMd, lastSynthesis, synth, spawned, hook,
      check>>

-----------------------------------------------------------------------------
(* Text *)

\* String.prototype.repeat
Rep(c, n) == [i \in 1..n |-> c]

\* String.prototype.toLowerCase, on ASCII
LowerChar(c) ==
    CASE c = "A" -> "a"
      [] c = "B" -> "b"
      [] c = "C" -> "c"
      [] c = "D" -> "d"
      [] c = "E" -> "e"
      [] c = "F" -> "f"
      [] c = "G" -> "g"
      [] c = "H" -> "h"
      [] c = "I" -> "i"
      [] c = "J" -> "j"
      [] c = "K" -> "k"
      [] c = "L" -> "l"
      [] c = "M" -> "m"
      [] c = "N" -> "n"
      [] c = "O" -> "o"
      [] c = "P" -> "p"
      [] c = "Q" -> "q"
      [] c = "R" -> "r"
      [] c = "S" -> "s"
      [] c = "T" -> "t"
      [] c = "U" -> "u"
      [] c = "V" -> "v"
      [] c = "W" -> "w"
      [] c = "X" -> "x"
      [] c = "Y" -> "y"
      [] c = "Z" -> "z"
      [] OTHER   -> c

toLowerCase(s) == [i \in 1..Len(s) |-> LowerChar(s[i])]

WhiteSpace == {" ", "\n", "\t"}

RECURSIVE trimStart(_)
trimStart(s) ==
    IF s # <<>> /\ Head(s) \in WhiteSpace THEN trimStart(Tail(s)) ELSE s

RECURSIVE trimEnd(_)
trimEnd(s) ==
    IF s # <<>> /\ s[Len(s)] \in WhiteSpace THEN trimEnd(SubSeq(s, 1, Len(s) - 1)) ELSE s

\* String.prototype.trim
trim(s) == trimEnd(trimStart(s))

\* String.prototype.includes
includes(s, sub) ==
    \E i \in 0..(Len(s) - Len(sub)) : SubSeq(s, i + 1, i + Len(sub)) = sub

\* String.prototype.slice(0, n)
slice(s, n) == SubSeq(s, 1, IF Len(s) < n THEN Len(s) ELSE n)

-----------------------------------------------------------------------------
(* Time *)

SecondsPerHour == 3600
SecondsPerDay == 86400

\* memory-utils formatTimestamp: YYYYMMDD_HHMMSS, the two parts of a file name
formatTimestamp(date) == <<date \div SecondsPerDay, date % SecondsPerDay>>

\* one file name for every record: with it in place of sessionFileName,
\* C15_RecordsOnlyAdded fails
sessionFileNameFixed(date) == <<0, 0>>

\* `session_${formatTimestamp(timestamp)}.json`
sessionFileName(date) == formatTimestamp(date)

-----------------------------------------------------------------------------
(* Configuration (memory-utils) *)

DEFAULT_CONFIG ==
    [ enabled |-> TRUE,
      min_messages |-> 5,
      categories |-> {"work_context", "preferences", "technical_style",
                      "ongoing_projects", "tools_and_workflows"},
      synthesis_interval_hours |-> 24,
      max_memories_per_category |-> 15,
      cleanup_after_days |-> 30 ]

\* a memory-config.json that is no JSON
NotJsonConfig == [garbage |-> TRUE]

\* { ...DEFAULT_CONFIG, ...config }: a key of the file overrides the default;
\* a missing or unparsable file gives the defaults
loadConfig(file) ==
    IF "garbage" \in DOMAIN file THEN DEFAULT_CONFIG
    ELSE [k \in DOMAIN DEFAULT_CONFIG |->
             IF k \in DOMAIN file THEN file[k] ELSE DEFAULT_CONFIG[k]]

\* JavaScript `value || fallback` on a number: 0 is falsy
OrDefault(value, fallback) == IF value = 0 THEN fallback ELSE value

-----------------------------------------------------------------------------
(* Synthesis engine (synthesize-memory.js) *)

CATEGORY_ORDER ==
    <<"work_context", "ongoing_projects", "preferences", "technical_style",
      "tools_and_workflows">>

\* CATEGORY_NAMES[category] || title-cased category; the title-casing of an
\* unlisted category is kept symbolic
formatCategoryName(category) ==
    CASE category = "work_context"        -> "Work Context"
      [] category = "preferences"         -> "Preferences"
      [] category = "technical_style"     -> "Technical Style"
      [] category = "ongoing_projects"    -> "Ongoing Projects"
      [] category = "tools_and_workflows" -> "Tools & Workflows"
      [] OTHER                            -> category

\* a file name session_<date>_<time>.json has two parts; any other
\* session_*.json name does not
IsStamped(name) == Len(name) = 2

NameBefore(a, b) ==
    IF IsStamped(a) /\ IsStamped(b)
    THEN a[1] < b[1] \/ (a[1] = b[1] /\ a[2] < b[2])
    ELSE ~IsStamped(a) /\ IsStamped(b)

\* fs.readdirSync(sessionsDir) filtered to session_*.json, in name order
RECURSIVE readdirSync(_)
readdirSync(dir) ==
    IF DOMAIN dir = {} THEN <<>>
    ELSE LET first == CHOOSE n \in DOMAIN dir :
                          \A m \in DOMAIN dir \ {n} : NameBefore(n, m)
         IN  <<first>> \o readdirSync([n \in DOMAIN dir \ {first} |-> dir[n]])

RECURSIVE FlattenFiles(_, _)
FlattenFiles(dir, files) ==
    IF files = <<>> THEN <<>>
    ELSE LET file == Head(files)
             data == dir[file]
         IN  [i \in 1..Len(data.memories) |->
                 [ category    |-> data.memories[i].category,
                   content     |-> data.memories[i].content,
                   timestamp   |-> data.timestamp,
                   source_file |-> file ]]
             \o FlattenFiles(dir, Tail(files))

\* every fact of every session file, each with its file's timestamp
loadSessionMemories(dir) == FlattenFiles(dir, readdirSync(dir))

\* the keys of byCategory in insertion order: categories by first occurrence
RECURSIVE CategoryKeys(_, _)
CategoryKeys(memories, seen) ==
    IF memories = <<>> THEN <<>>
    ELSE IF Head(memories).category \in seen
         THEN CategoryKeys(Tail(memories), seen)
         ELSE <<Head(memories).category>>
              \o CategoryKeys(Tail(memories), seen \cup {Head(memories).category})

\* the number a key denotes when it is an array index ("0", "7", "42"), and
\* -1 for every other key
arrayIndex(key) ==
    IF \E n \in 0..99 : ToString(n) = key
    THEN CHOOSE n \in 0..99 : ToString(n) = key
    ELSE -1

RECURSIVE InsertAscending(_, _)
InsertAscending(sorted, key) ==
    IF sorted = <<>> THEN <<key>>
    ELSE IF arrayIndex(Head(sorted)) <= arrayIndex(key)
         THEN <<Head(sorted)>> \o InsertAscending(Tail(sorted), key)
         ELSE <<key>> \o sorted

RECURSIVE sortAscending(_)
sortAscending(keys) ==
    IF keys = <<>> THEN <<>>
    ELSE InsertAscending(sortAscending(SubSeq(keys, 1, Len(keys) - 1)), keys[Len(keys)])

\* the order in which Object.entries lists the keys of an object: the array
\* indices in ascending order, then the other keys in insertion order
ownKeys(inserted) ==
    LET IsIndex(key) == arrayIndex(key) >= 0
        IsName(key) == arrayIndex(key) < 0
    IN  sortAscending(SelectSeq(inserted, IsIndex)) \o SelectSeq(inserted, IsName)

\* [...mems].sort((a, b) => tb.localeCompare(ta)): stable, newest first
\* (ISO-8601 timestamps compare as the instants they denote)
RECURSIVE InsertNewestFirst(_, _)
InsertNewestFirst(sorted, mem) ==
    IF sorted = <<>> THEN <<mem>>
    ELSE IF Head(sorted).timestamp >= mem.timestamp
         THEN <<Head(sorted)>> \o InsertNewestFirst(Tail(sorted), mem)
         ELSE <<mem>> \o sorted

RECURSIVE sortNewestFirst(_)
sortNewestFirst(mems) ==
    IF mems = <<>> THEN <<>>
    ELSE InsertNewestFirst(sortNewestFirst(SubSeq(mems, 1, Len(mems) - 1)),
                           mems[Len(mems)])

\* the overlap test in one direction only: with it in place of isDuplicate,
\* C3_NewerOfOverlappingPairKept fails
isDuplicateOneWay(content, seenContent) ==
    \E k \in 1..Len(seenContent) :
        \/ content = seenContent[k]
        \/ /\ Len(content) > 20
           /\ Len(seenContent[k]) > 20
           /\ includes(content, seenContent[k])

\* the overlap test without the exact match: with it in place of
\* isDuplicate, C16_SameContentKeptOnce fails
isDuplicateLongOnly(content, seenContent) ==
    \E k \in 1..Len(seenContent) :
        /\ Len(content) > 20
        /\ Len(seenContent[k]) > 20
        /\ \/ includes(content, seenContent[k])
           \/ includes(seenContent[k], content)

\* the test against the last kept content only: with it in place of
\* isDuplicate, C27_KeptPairwiseDistinct fails
isDuplicateOfLast(content, seenContent) ==
    /\ seenContent # <<>>
    /\ LET seen == seenContent[Len(seenContent)]
       IN  \/ content = seen
           \/ /\ Len(content) > 20
              /\ Len(seen) > 20
              /\ \/ includes(content, seen)
                 \/ includes(seen, content)

\* the inner loop of deduplicateMemories: exact match or substring overlap
isDuplicate(content, seenContent) ==
    \E k \in 1..Len(seenContent) :
        \/ content = seenContent[k]
        \/ /\ Len(content) > 20
           /\ Len(seenContent[k]) > 20
           /\ \/ includes(content, seenContent[k])
              \/ includes(seenContent[k], content)

\* the walk over one category's sorted facts; it stops once
\* uniqueMems.length >= maxPerCategory
RECURSIVE uniqueWalk(_, _, _, _)
uniqueWalk(sorted, seenContent, uniqueMems, maxPerCategory) ==
    IF sorted = <<>> THEN uniqueMems
    ELSE LET mem == Head(sorted)
             content == trim(toLowerCase(mem.content))
         IN  IF isDuplicate(content, seenContent)
             THEN uniqueWalk(Tail(sorted), seenContent, uniqueMems, maxPerCategory)
             ELSE IF Len(uniqueMems) + 1 >= maxPerCategory
                  THEN Append(uniqueMems, mem)
                  ELSE uniqueWalk(Tail(sorted), Append(seenContent, content),
                                  Append(uniqueMems, mem), maxPerCategory)

\* category -> kept facts, as the sequence of the object's entries in the
\* order of Object.entries
deduplicateMemories(memories, maxPerCategory) ==
    LET keys == ownKeys(CategoryKeys(memories, {}))
    IN  [i \in 1..Len(keys) |->
            LET InCategory(mem) == mem.category = keys[i]
            IN  [ category |-> keys[i],
                  mems |-> uniqueWalk(sortNewestFirst(SelectSeq(memories, InCategory)),
                                      <<>>, <<>>, maxPerCategory) ]]

Line(kind, name, text, time) ==
    [kind |-> kind, name |-> name, text |-> text, time |-> time]

SectionLines(entry) ==
    <<Line("section", formatCategoryName(entry.category), <<>>, 0)>>
    \o [i \in 1..Len(entry.mems) |-> Line("bullet", "", entry.mems[i].content, 0)]
    \o <<Line("blank", "", <<>>, 0)>>

RECURSIVE ConcatSections(_)
ConcatSections(entries) ==
    IF entries = <<>> THEN <<>>
    ELSE SectionLines(Head(entries)) \o ConcatSections(Tail(entries))

InCategoryOrder(category) == \E i \in 1..Len(CATEGORY_ORDER) : CATEGORY_ORDER[i] = category

\* a document that stamps every category entry with the synthesis time: with
\* it in place of generateMemoryMd, C5_SynthesisIdempotent fails
generateMemoryMdStamped(memoriesByCategory, synthesisTime) ==
    LET Shown(entry) == entry.mems # <<>>
        shown == SelectSeq(memoriesByCategory, Shown)
    IN  << Line("title", "Claude Code Memory", <<>>, 0),
           Line("blank", "", <<>>, 0),
           Line("synthesized", "", <<>>, synthesisTime \div 60),
           Line("blank", "", <<>>, 0) >>
        \o ConcatSections(shown)
        \o [i \in 1..Len(shown) |-> Line("updated", shown[i].category, <<>>, synthesisTime)]

\* a document of the known categories only: with it in place of
\* generateMemoryMd, C30_NothingInventedNothingDropped fails
generateMemoryMdKnownOnly(memoriesByCategory, synthesisTime) ==
    LET Known(entry) == InCategoryOrder(entry.category) /\ entry.mems # <<>>
    IN  << Line("title", "Claude Code Memory", <<>>, 0),
           Line("blank", "", <<>>, 0),
           Line("synthesized", "", <<>>, synthesisTime \div 60),
           Line("blank", "", <<>>, 0) >>
        \o ConcatSections(SelectSeq(memoriesByCategory, Known))

\* the lines of MEMORY.md: the title, the "Last synthesized" line to the
\* minute, the known categories in CATEGORY_ORDER, then the remaining ones
generateMemoryMd(memoriesByCategory, synthesisTime) ==
    LET Known(c) ==
            LET Is(entry) == entry.category = c /\ entry.mems # <<>>
            IN  SelectSeq(memoriesByCategory, Is)
        RECURSIVE KnownSections(_)
        KnownSections(i) ==
            IF i > Len(CATEGORY_ORDER) THEN <<>>
            ELSE Known(CATEGORY_ORDER[i]) \o KnownSections(i + 1)
        Remaining(entry) == ~InCategoryOrder(entry.category) /\ entry.mems # <<>>
    IN  << Line("title", "Claude Code Memory", <<>>, 0),
           Line("blank", "", <<>>, 0),
           Line("synthesized", "", <<>>, synthesisTime \div 60),
           Line("blank", "", <<>>, 0) >>
        \o ConcatSections(KnownSections(1))
        \o ConcatSections(SelectSeq(memoriesByCategory, Remaining))

\* cutoff = Date.now() - days * 24 * 60 * 60 * 1000
cleanupCutoff(now, days) == now - days * SecondsPerDay

\* new Date(year, month, day, hour, minute, second) from the parts of the name
parseFileDate(name) == name[1] * SecondsPerDay + name[2]

\* a cleanup that does not look at the date: with it in place of
\* shouldUnlink, C29_CleanupSparesNewRecords fails
shouldUnlinkAnyDate(name, cutoff) == IsStamped(name)

\* the test of cleanupOldSessions on one file: two parts and fileDate < cutoff
shouldUnlink(name, cutoff) == IsStamped(name) /\ parseFileDate(name) < cutoff

-----------------------------------------------------------------------------
(* Session recorder (save-memory.js) *)

MAX_CONVERSATION_BYTES == 50000
MAX_MEMORIES == 15

WordChars ==
    {"a", "b", "c", "d", "e", "f", "g", "h", "i", "j", "k", "l", "m", "n",
    "o", "p", "q", "r", "s", "t", "u", "v", "w", "x", "y", "z", "A", "B",
    "C", "D", "E", "F", "G", "H", "I", "J", "K", "L", "M", "N", "O", "P",
    "Q", "R", "S", "T", "U", "V", "W", "X", "Y", "Z", "0", "1", "2", "3",
    "4", "5", "6", "7", "8", "9", "_"}

RECURSIVE Join(_, _)
Join(parts, sep) ==
    IF parts = <<>> THEN <<>>
    ELSE IF Len(parts) = 1 THEN parts[1]
    ELSE parts[1] \o sep \o Join(Tail(parts), sep)

StringContent(text) == [kind |-> "string", text |-> text, blocks |-> <<>>]
BlocksContent(blocks) == [kind |-> "blocks", text |-> <<>>, blocks |-> blocks]
NoContent == [kind |-> "none", text |-> <<>>, blocks |-> <<>>]

CommandName == <<"<", "c", "o", "m", "m", "a", "n", "d", "-", "n", "a", "m", "e", ">">>
CommandMessage == <<"<", "c", "o", "m", "m", "a", "n", "d", "-", "m", "e", "s", "s", "a", "g", "e", ">">>
LocalCommand == <<"<", "l", "o", "c", "a", "l", "-", "c", "o", "m", "m", "a", "n", "d">>

\* the text a block of a user entry contributes: none for a command echo, a
\* text block over 2000 characters or a tool_result block
humanBlock(block) ==
    IF block.type = "string" THEN <<block.text>>
    ELSE IF block.type = "text" /\ block.text # <<>>
    THEN IF \/ includes(block.text, CommandName)
            \/ includes(block.text, CommandMessage)
         THEN <<>>
         ELSE IF Len(block.text) > 2000 THEN <<>>
         ELSE <<block.text>>
    ELSE <<>>

RECURSIVE humanParts(_)
humanParts(blocks) ==
    IF blocks = <<>> THEN <<>>
    ELSE humanBlock(Head(blocks)) \o humanParts(Tail(blocks))

\* extractHumanText: a string unless it echoes a command; of an array, its
\* kept blocks joined by a space
extractHumanText(content) ==
    IF content.kind = "string"
    THEN IF \/ includes(content.text, CommandName)
            \/ includes(content.text, CommandMessage)
            \/ includes(content.text, LocalCommand)
         THEN <<>>
         ELSE trim(content.text)
    ELSE IF content.kind = "blocks"
    THEN trim(Join(humanParts(content.blocks), <<" ">>))
    ELSE <<>>

\* the text a block of an assistant entry contributes: a text block capped
\* at 1000 characters plus "...", none for a tool_use block
assistantBlock(block) ==
    IF block.type = "string" THEN <<block.text>>
    ELSE IF block.type = "text" /\ block.text # <<>>
    THEN IF Len(block.text) > 1000
         THEN <<SubSeq(block.text, 1, 1000) \o <<".", ".", ".">>>>
         ELSE <<block.text>>
    ELSE <<>>

RECURSIVE assistantParts(_)
assistantParts(blocks) ==
    IF blocks = <<>> THEN <<>>
    ELSE assistantBlock(Head(blocks)) \o assistantParts(Tail(blocks))

\* extractAssistantText
extractAssistantText(content) ==
    IF content.kind = "string" THEN trim(content.text)
    ELSE IF content.kind = "blocks"
    THEN trim(Join(assistantParts(content.blocks), <<" ">>))
    ELSE <<>>

\* the loop over the transcript's lines: it stops once totalBytes reaches
\* MAX_CONVERSATION_BYTES; it skips lines that are no JSON, entries without
\* message or type, snapshots, summaries, progress markers, meta entries and
\* entries without content; it keeps a text only if text.length > 5
RECURSIVE collectMessages(_, _, _, _)
collectMessages(lines, userMessages, assistantMessages, totalBytes) ==
    IF lines = <<>> \/ totalBytes >= MAX_CONVERSATION_BYTES
    THEN [userMessages |-> userMessages, assistantMessages |-> assistantMessages]
    ELSE LET entry == Head(lines)
             rest == Tail(lines)
             skip == \/ ~entry.json
                     \/ ~entry.hasMessage
                     \/ entry.type \in {"", "file-history-snapshot", "summary", "progress"}
                     \/ entry.isMeta
                     \/ entry.content.kind = "none"
             text == IF entry.role = "user" THEN extractHumanText(entry.content)
                     ELSE extractAssistantText(entry.content)
         IN  IF skip \/ entry.role \notin {"user", "assistant"} \/ ~(Len(text) > 5)
             THEN collectMessages(rest, userMessages, assistantMessages, totalBytes)
             ELSE IF entry.role = "user"
             THEN collectMessages(rest, Append(userMessages, text), assistantMessages,
                                  totalBytes + Len(text))
             ELSE collectMessages(rest, userMessages, Append(assistantMessages, text),
                                  totalBytes + Len(text))

UserPrefix == <<"U", "S", "E", "R", ":", " ">>
AssistantPrefix == <<"A", "S", "S", "I", "S", "T", "A", "N", "T", ":", " ">>
BlankLine == <<"\n", "\n">>

\* allMessages: user i, then assistant i, for i = 0 .. max length - 1
RECURSIVE interleave(_, _, _)
interleave(userMessages, assistantMessages, i) ==
    IF i > Len(userMessages) /\ i > Len(assistantMessages) THEN <<>>
    ELSE (IF i <= Len(userMessages) THEN <<UserPrefix \o userMessages[i]>> ELSE <<>>)
         \o (IF i <= Len(assistantMessages)
             THEN <<AssistantPrefix \o assistantMessages[i]>> ELSE <<>>)
         \o interleave(userMessages, assistantMessages, i + 1)

\* Buffer.byteLength, on the one-byte characters of the model
byteLength(text) == Len(text)

\* the most recent messages whose sizes add up to at most MAX_CONVERSATION_BYTES
RECURSIVE recentParts(_, _, _)
recentParts(allMessages, i, size) ==
    IF i < 1 THEN <<>>
    ELSE IF size + byteLength(allMessages[i]) > MAX_CONVERSATION_BYTES THEN <<>>
    ELSE recentParts(allMessages, i - 1, size + byteLength(allMessages[i]))
         \o <<allMessages[i]>>

\* a threshold that stops only the empty conversation: with it in place of
\* tooShort, C2_NoRecordBelowMinMessages fails
tooShortOnlyWhenEmpty(messageCount, config) == messageCount = 0

\* the min_messages threshold: messageCount < (config.min_messages || 5)
tooShort(messageCount, config) == messageCount < OrDefault(config.min_messages, 5)

\* { text, messageCount, userMessages, assistantMessages }; parts are the
\* messages that text joins
extractConversationText(transcript, config) ==
    LET got == collectMessages(transcript, <<>>, <<>>, 0)
        messageCount == Len(got.userMessages) + Len(got.assistantMessages)
        allMessages == interleave(got.userMessages, got.assistantMessages, 1)
        parts == IF byteLength(Join(allMessages, BlankLine)) > MAX_CONVERSATION_BYTES
                 THEN recentParts(allMessages, Len(allMessages), 0)
                 ELSE allMessages
    IN  IF tooShort(messageCount, config)
        THEN [ text |-> <<>>, parts |-> <<>>, messageCount |-> messageCount,
               userMessages |-> <<>>, assistantMessages |-> <<>> ]
        ELSE [ text |-> Join(parts, BlankLine), parts |-> parts,
               messageCount |-> messageCount,
               userMessages |-> got.userMessages,
               assistantMessages |-> got.assistantMessages ]

\* the outcome of `claude -p`: "ok" with the parsed memories array, or a
\* failure: the command is unavailable, it throws, it times out, or its
\* output holds no JSON object with a memories array
OracleFailures == {"unavailable", "throws", "timeout", "malformed"}

\* tryAIExtraction: the entries whose category and content are strings, and
\* [] on every failure
tryAIExtraction(conversationText, oracle) ==
    IF oracle.outcome = "ok"
    THEN LET Ok(m) == /\ m.kind = "object"
                      /\ m.category.type = "string" /\ m.content.type = "string"
         IN  SelectSeq(oracle.memories, Ok)
    ELSE <<>>

\* the table of preferencePatterns, each regex as the phrases it accepts
preferencePatterns ==
    <<
        [ category |-> "preferences",
          phrases |-> <<
            <<"i", " ", "p", "r", "e", "f", "e", "r">>,
            <<"i", " ", "l", "i", "k", "e", " ", "t", "o">>,
            <<"i", " ", "w", "a", "n", "t", " ", "t", "o">>,
            <<"i", " ", "a", "l", "w", "a", "y", "s", " ", "u", "s", "e">>,
            <<"i", " ", "u", "s", "u", "a", "l", "l", "y">>,
            <<"i", " ", "t", "e", "n", "d", " ", "t", "o">> >> ],
        [ category |-> "preferences",
          phrases |-> <<
            <<"p", "l", "e", "a", "s", "e", " ", "a", "l", "w", "a", "y", "s">>,
            <<"p", "l", "e", "a", "s", "e", " ", "n", "e", "v", "e", "r">>,
            <<"p", "l", "e", "a", "s", "e", " ", "d", "o", "n", "'", "t">>,
            <<"p", "l", "e", "a", "s", "e", " ", "d", "o", " ", "n", "o", "t">> >> ],
        [ category |-> "preferences",
          phrases |-> <<
            <<"i", " ", "h", "a", "t", "e">>,
            <<"i", " ", "a", "v", "o", "i", "d">>,
            <<"i", " ", "d", "i", "s", "l", "i", "k", "e">>,
            <<"i", " ", "d", "o", "n", "'", "t", " ", "l", "i", "k", "e">>,
            <<"i", " ", "d", "o", "n", "'", "t", " ", "w", "a", "n", "t">> >> ],
        [ category |-> "preferences",
          phrases |-> <<
            <<"d", "o", "n", "'", "t", " ", "u", "s", "e">>,
            <<"d", "o", "n", "'", "t", " ", "a", "d", "d">>,
            <<"d", "o", "n", "'", "t", " ", "i", "n", "c", "l", "u", "d", "e">>,
            <<"d", "o", "n", "'", "t", " ", "c", "r", "e", "a", "t", "e">>,
            <<"d", "o", "n", "t", " ", "u", "s", "e">>,
            <<"d", "o", "n", "t", " ", "a", "d", "d">>,
            <<"d", "o", "n", "t", " ", "i", "n", "c", "l", "u", "d", "e">>,
            <<"d", "o", "n", "t", " ", "c", "r", "e", "a", "t", "e">> >> ],
        [ category |-> "ongoing_projects",
          phrases |-> <<
            <<"i", " ", "w", "o", "r", "k", " ", "o", "n">>,
            <<"i", " ", "a", "m", " ", "w", "o", "r", "k", "i", "n", "g", " ", "o", "n">>,
            <<"i", " ", "a", "m", " ", "b", "u", "i", "l", "d", "i", "n", "g">> >> ],
        [ category |-> "work_context",
          phrases |-> <<
            <<"i", " ", "a", "m", " ", "a">>,
            <<"i", " ", "w", "o", "r", "k", " ", "a", "s">>,
            <<"i", " ", "w", "o", "r", "k", " ", "a", "t">>,
            <<"i", " ", "w", "o", "r", "k", " ", "f", "o", "r">> >> ],
        [ category |-> "work_context",
          phrases |-> <<
            <<"o", "u", "r", " ", "t", "e", "a", "m">>,
            <<"o", "u", "r", " ", "c", "o", "m", "p", "a", "n", "y">>,
            <<"o", "u", "r", " ", "o", "r", "g">>,
            <<"o", "u", "r", " ", "o", "r", "g", "a", "n", "i", "z", "a", "t", "i", "o", "n">>,
            <<"o", "u", "r", " ", "c", "o", "d", "e", "b", "a", "s", "e">>,
            <<"o", "u", "r", " ", "p", "r", "o", "j", "e", "c", "t">>,
            <<"o", "u", "r", " ", "s", "t", "a", "c", "k">> >> ],
        [ category |-> "tools_and_workflows",
          phrases |-> <<
            <<"w", "e", " ", "u", "s", "e">>,
            <<"w", "e", " ", "d", "e", "p", "l", "o", "y">>,
            <<"w", "e", " ", "b", "u", "i", "l", "d">>,
            <<"w", "e", " ", "r", "u", "n">>,
            <<"w", "e", " ", "d", "e", "v", "e", "l", "o", "p">> >> ] >>

\* the [.!?\n]+ split of a user message
RECURSIVE splitSentences(_, _)
splitSentences(text, current) ==
    IF text = <<>> THEN (IF current = <<>> THEN <<>> ELSE <<current>>)
    ELSE IF Head(text) \in {".", "!", "?", "\n"}
         THEN (IF current = <<>> THEN <<>> ELSE <<current>>)
              \o splitSentences(Tail(text), <<>>)
         ELSE splitSentences(Tail(text), Append(current, Head(text)))

\* /\bphrase\b/i at some position of the sentence
matchesPhrase(sentence, phrase) ==
    LET s == toLowerCase(sentence)
    IN  \E i \in 0..(Len(s) - Len(phrase)) :
            /\ SubSeq(s, i + 1, i + Len(phrase)) = phrase
            /\ (i = 0 \/ s[i] \notin WordChars)
            /\ (i + Len(phrase) = Len(s) \/ s[i + Len(phrase) + 1] \notin WordChars)

\* the category of the first pattern that matches, "" when none does
RECURSIVE firstPattern(_, _)
firstPattern(sentence, k) ==
    IF k > Len(preferencePatterns) THEN ""
    ELSE IF \E j \in 1..Len(preferencePatterns[k].phrases) :
                matchesPhrase(sentence, preferencePatterns[k].phrases[j])
         THEN preferencePatterns[k].category
         ELSE firstPattern(sentence, k + 1)

\* the extensions extPattern accepts
FileExtensions ==
    {<<"t", "s">>, <<"t", "s", "x">>, <<"j", "s">>, <<"j", "s", "x">>, <<"p", "y">>, <<"c", "s">>, <<"j", "a", "v", "a">>, <<"g", "o">>, <<"r", "s">>, <<"r", "b">>, <<"p", "h", "p">>, <<"v", "u", "e">>, <<"s", "v", "e", "l", "t", "e">>, <<"s", "w", "i", "f", "t">>, <<"k", "t">>, <<"c", "p", "p">>, <<"c">>, <<"h">>}

Frameworks ==
    <<
        [ names |-> <<
            <<"R", "e", "a", "c", "t">>,
            <<"r", "e", "a", "c", "t">> >>,
          label |-> <<"R", "e", "a", "c", "t">> ],
        [ names |-> <<
            <<"N", "e", "x", "t", ".", "j", "s">>,
            <<"n", "e", "x", "t", "j", "s">>,
            <<"n", "e", "x", "t", "/">> >>,
          label |-> <<"N", "e", "x", "t", ".", "j", "s">> ],
        [ names |-> <<
            <<"V", "u", "e">>,
            <<"v", "u", "e">> >>,
          label |-> <<"V", "u", "e">> ],
        [ names |-> <<
            <<"A", "n", "g", "u", "l", "a", "r">>,
            <<"a", "n", "g", "u", "l", "a", "r">> >>,
          label |-> <<"A", "n", "g", "u", "l", "a", "r">> ],
        [ names |-> <<
            <<"D", "j", "a", "n", "g", "o">>,
            <<"d", "j", "a", "n", "g", "o">> >>,
          label |-> <<"D", "j", "a", "n", "g", "o">> ],
        [ names |-> <<
            <<"E", "x", "p", "r", "e", "s", "s">>,
            <<"e", "x", "p", "r", "e", "s", "s">> >>,
          label |-> <<"E", "x", "p", "r", "e", "s", "s">> ],
        [ names |-> <<
            <<"D", "o", "c", "k", "e", "r">>,
            <<"d", "o", "c", "k", "e", "r">>,
            <<"D", "o", "c", "k", "e", "r", "f", "i", "l", "e">> >>,
          label |-> <<"D", "o", "c", "k", "e", "r">> ],
        [ names |-> <<
            <<".", "N", "E", "T">>,
            <<"d", "o", "t", "n", "e", "t">>,
            <<"A", "S", "P", ".", "N", "E", "T">>,
            <<"E", "n", "t", "i", "t", "y", " ", "F", "r", "a", "m", "e", "w", "o", "r", "k">> >>,
          label |-> <<".", "N", "E", "T">> ],
        [ names |-> <<
            <<"T", "a", "i", "l", "w", "i", "n", "d">>,
            <<"t", "a", "i", "l", "w", "i", "n", "d", "c", "s", "s">> >>,
          label |-> <<"T", "a", "i", "l", "w", "i", "n", "d", " ", "C", "S", "S">> ],
        [ names |-> <<
            <<"P", "o", "s", "t", "g", "r", "e", "S", "Q", "L">>,
            <<"p", "o", "s", "t", "g", "r", "e", "s">> >>,
          label |-> <<"P", "o", "s", "t", "g", "r", "e", "S", "Q", "L">> ],
        [ names |-> <<
            <<"M", "o", "n", "g", "o", "D", "B">>,
            <<"m", "o", "n", "g", "o", "o", "s", "e">> >>,
          label |-> <<"M", "o", "n", "g", "o", "D", "B">> ],
        [ names |-> <<
            <<"K", "u", "b", "e", "r", "n", "e", "t", "e", "s">>,
            <<"k", "8", "s">>,
            <<"k", "u", "b", "e", "c", "t", "l">> >>,
          label |-> <<"K", "u", "b", "e", "r", "n", "e", "t", "e", "s">> ] >>

IsWordAt(text, i) == i >= 1 /\ i <= Len(text) /\ text[i] \in WordChars

\* the regex assertion \b between positions i and i + 1 of the text
WordBoundary(text, i) == IsWordAt(text, i) # IsWordAt(text, i + 1)

RECURSIVE wordRun(_, _)
wordRun(text, i) ==
    IF IsWordAt(text, i) THEN <<LowerChar(text[i])>> \o wordRun(text, i + 1) ELSE <<>>

\* the matches of /\.(ts|tsx|...|c|h)\b/gi, in order: a dot followed by a
\* whole word that is one of the extensions
RECURSIVE extensionMatches(_, _)
extensionMatches(text, i) ==
    IF i > Len(text) THEN <<>>
    ELSE IF text[i] = "." /\ wordRun(text, i + 1) \in FileExtensions
         THEN <<wordRun(text, i + 1)>> \o extensionMatches(text, i + 1)
         ELSE extensionMatches(text, i + 1)

RECURSIVE Distinct(_, _)
Distinct(s, seen) ==
    IF s = <<>> THEN <<>>
    ELSE IF Head(s) \in seen THEN Distinct(Tail(s), seen)
         ELSE <<Head(s)>> \o Distinct(Tail(s), seen \cup {Head(s)})

CountOf(s, x) == Cardinality({i \in 1..Len(s) : s[i] = x})

\* .sort((a, b) => b[1] - a[1]) of the [ext, count] entries: stable,
\* larger counts first
RECURSIVE InsertByCount(_, _, _)
InsertByCount(sorted, ext, matches) ==
    IF sorted = <<>> THEN <<ext>>
    ELSE IF CountOf(matches, Head(sorted)) >= CountOf(matches, ext)
         THEN <<Head(sorted)>> \o InsertByCount(Tail(sorted), ext, matches)
         ELSE <<ext>> \o sorted

RECURSIVE sortByCount(_, _)
sortByCount(keys, matches) ==
    IF keys = <<>> THEN <<>>
    ELSE InsertByCount(sortByCount(SubSeq(keys, 1, Len(keys) - 1), matches),
                       keys[Len(keys)], matches)

\* the extensions mentioned at least twice, by count, at most five
significantExts(allText) ==
    LET matches == extensionMatches(allText, 1)
        AtLeastTwice(ext) == CountOf(matches, ext) >= 2
    IN  slice(sortByCount(SelectSeq(Distinct(matches, {}), AtLeastTwice), matches), 5)

\* the number of matches of /\bname\b/gi in the text
countName(text, name) ==
    LET lowered == toLowerCase(name)
    IN  Cardinality({i \in 0..(Len(text) - Len(name)) :
            /\ LowerChar(text[i + 1]) = lowered[1]
            /\ toLowerCase(SubSeq(text, i + 1, i + Len(name))) = lowered
            /\ WordBoundary(text, i)
            /\ WordBoundary(text, i + Len(name))})

RECURSIVE countNames(_, _)
countNames(text, names) ==
    IF names = <<>> THEN 0
    ELSE countName(text, Head(names)) + countNames(text, Tail(names))

\* the labels of the frameworks mentioned at least twice
RECURSIVE detectedFrameworks(_, _)
detectedFrameworks(allText, k) ==
    IF k > Len(Frameworks) THEN <<>>
    ELSE (IF countNames(allText, Frameworks[k].names) >= 2
          THEN <<Frameworks[k].label>> ELSE <<>>)
         \o detectedFrameworks(allText, k + 1)

Fact(category, content) == [category |-> category, content |-> content]

\* the facts of one user message: per sentence of more than 10 and at most
\* 500 characters, the category of the first pattern that matches it
RECURSIVE sentenceFacts(_)
sentenceFacts(sentences) ==
    IF sentences = <<>> THEN <<>>
    ELSE LET trimmed == trim(Head(sentences))
             category == firstPattern(trimmed, 1)
         IN  (IF Len(trimmed) > 10 /\ ~(Len(trimmed) > 500) /\ category # ""
              THEN <<Fact(category, trimmed)>> ELSE <<>>)
             \o sentenceFacts(Tail(sentences))

RECURSIVE patternFacts(_)
patternFacts(userMessages) ==
    IF userMessages = <<>> THEN <<>>
    ELSE sentenceFacts(splitSentences(Head(userMessages), <<>>))
         \o patternFacts(Tail(userMessages))

WorksWith == <<"W", "o", "r", "k", "s", " ", "w", "i", "t", "h", " ", "f", "i", "l", "e", " ", "t", "y", "p", "e", "s", ":", " ">>
Uses == <<"U", "s", "e", "s", ":", " ">>
WorkedIn == <<"W", "o", "r", "k", "e", "d", " ", "i", "n", ":", " ">>
CommaSpace == <<",", " ">>

\* heuristicExtraction: the pattern facts, the file types, the frameworks and
\* the working directory, at most MAX_MEMORIES of them
heuristicExtraction(conversation, config, workingDir) ==
    LET allText == Join(conversation.userMessages \o conversation.assistantMessages,
                        <<"\n">>)
        exts == significantExts(allText)
        frameworks == detectedFrameworks(allText, 1)
    IN  slice(patternFacts(conversation.userMessages)
              \o (IF exts # <<>>
                  THEN <<Fact("technical_style",
                              WorksWith \o Join([i \in 1..Len(exts) |-> <<".">> \o exts[i]],
                                                CommaSpace))>>
                  ELSE <<>>)
              \o (IF frameworks # <<>>
                  THEN <<Fact("tools_and_workflows", Uses \o Join(frameworks, CommaSpace))>>
                  ELSE <<>>)
              \o (IF workingDir # <<>>
                  THEN <<Fact("ongoing_projects", WorkedIn \o workingDir)>>
                  ELSE <<>>),
              MAX_MEMORIES)

\* a raw candidate of the payload or of the oracle: null, or an object whose
\* category and content are strings or are missing
Candidate(category, content) ==
    [ kind |-> "object",
      category |-> [type |-> "string", value |-> category, number |-> 0],
      content |-> [type |-> "string", value |-> content, number |-> 0] ]

RawFact(fact) == Candidate(fact.category, fact.content)

\* JavaScript truthiness of a field of a candidate, which holds a string
\* (value) or a number: a string other than the empty one, a number other
\* than 0; a missing field is undefined
Truthy(field, empty) ==
    \/ field.type = "string" /\ field.value # empty
    \/ field.type = "number" /\ field.number # 0

Digit == <<"0", "1", "2", "3", "4", "5", "6", "7", "8", "9">>

\* the decimal digits of a natural number
RECURSIVE Digits(_)
Digits(n) ==
    IF n < 10 THEN <<Digit[n + 1]>>
    ELSE Append(Digits(n \div 10), Digit[(n % 10) + 1])

\* String(mem.content): a string is itself, a number its decimal digits
String(field) ==
    IF field.type = "string" THEN field.value ELSE Digits(field.number)

\* String(mem.category), the category being a name and not a text
CategoryString(field) ==
    IF field.type = "string" THEN field.value ELSE ToString(field.number)

\* the filter without its category test: with it in place of isValidMemory,
\* C1_CategoriesConfigured fails
isValidMemoryAnyCategory(mem, validCategories) ==
    /\ mem.kind = "object"
    /\ Truthy(mem.category, "")
    /\ Truthy(mem.content, <<>>)

\* the filter of main: an object with a truthy category and a truthy
\* content, its category in config.categories unless that set is empty
isValidMemory(mem, validCategories) ==
    /\ mem.kind = "object"
    /\ Truthy(mem.category, "")
    /\ Truthy(mem.content, <<>>)
    /\ \/ validCategories = {}
       \/ mem.category.type = "string" /\ mem.category.value \in validCategories

\* the map without its slice(0, 500): with it in place of validateMemories,
\* C17_ContentTruncated fails
validateMemoriesUncut(memories, config) ==
    LET Valid(mem) == isValidMemory(mem, config.categories)
        kept == SelectSeq(memories, Valid)
    IN  slice([i \in 1..Len(kept) |->
                  Fact(CategoryString(kept[i].category), String(kept[i].content))],
              MAX_MEMORIES)

\* filter, map to { String(category), String(content).slice(0, 500) },
\* slice(0, MAX_MEMORIES)
validateMemories(memories, config) ==
    LET Valid(mem) == isValidMemory(mem, config.categories)
        kept == SelectSeq(memories, Valid)
    IN  slice([i \in 1..Len(kept) |->
                  Fact(CategoryString(kept[i].category),
                       slice(String(kept[i].content), 500))],
              MAX_MEMORIES)

ProcessCwd == <<"/", "p", "l", "u", "g", "i", "n">>

\* path.basename: what follows the last separator
RECURSIVE basename(_)
basename(dir) ==
    IF dir = <<>> THEN <<>>
    ELSE IF dir[Len(dir)] = "/" THEN <<>>
    ELSE Append(basename(SubSeq(dir, 1, Len(dir) - 1)), dir[Len(dir)])

\* the summary of a record: `x || 'Session'` of the payload's summary, or
\* `Session with ${messageCount} messages in ${basename}`
Summary(text, count, dir) ==
    [text |-> IF text = "" THEN "Session" ELSE text, count |-> count, dir |-> dir]

\* the letters of /^([A-Za-z]):/
Letters == WordChars \ {"0", "1", "2", "3", "4", "5", "6", "7", "8", "9", "_"}

\* cwdToProjectDirName: the colon of a drive letter and every slash and
\* backslash become a dash
cwdToProjectDirName(cwd) ==
    LET drive == Len(cwd) >= 2 /\ cwd[1] \in Letters /\ cwd[2] = ":"
    IN  [i \in 1..Len(cwd) |->
            IF cwd[i] \in {"/", "\\"} \/ (drive /\ i = 2) THEN "-" ELSE cwd[i]]

\* a transcript path: the payload's transcript_path, the path of entry
\* number `entry` of the sessions-index.json of a project directory, or the
\* <sessionId>.jsonl of a project directory; NoPath is null
NoPath == [via |-> "none", dir |-> <<>>, entry |-> 0]
PathOf(via, dir, entry) == [via |-> via, dir |-> dir, entry |-> entry]

\* Strategy A of findInProjectDir: the first entry of the index, from entry
\* k on, that has this sessionId and a path that exists; 0 when there is none
RECURSIVE indexEntry(_, _, _)
indexEntry(index, sessionId, k) ==
    IF k > Len(index) THEN 0
    ELSE IF /\ index[k].sessionId = sessionId
            /\ index[k].path /\ index[k].exists
         THEN k
         ELSE indexEntry(index, sessionId, k + 1)

\* the direct file ahead of the index: with it in place of
\* findInProjectDir, C20_FirstHitInOrder fails
findInProjectDirDirectFirst(projectDir, sessionId) ==
    IF projectDir.direct = sessionId
    THEN PathOf("direct", projectDir.name, 0)
    ELSE LET k == IF projectDir.index.kind = "array"
                  THEN indexEntry(projectDir.index.entries, sessionId, 1) ELSE 0
         IN  IF k > 0 THEN PathOf("index", projectDir.name, k) ELSE NoPath

\* findInProjectDir on an existing projectDir: the entry of
\* sessions-index.json, when that file holds an array, and then the direct
\* file; a missing or unparsable index falls through to the direct file
findInProjectDir(projectDir, sessionId) ==
    LET k == IF projectDir.index.kind = "array"
             THEN indexEntry(projectDir.index.entries, sessionId, 1) ELSE 0
    IN  IF k > 0 THEN PathOf("index", projectDir.name, k)
        ELSE IF projectDir.direct = sessionId THEN PathOf("direct", projectDir.name, 0)
        ELSE NoPath

\* Strategy 2: findInProjectDir on path.join(projectsDir, dirName), which is
\* null when nothing of that name exists
RECURSIVE findInNamedDir(_, _, _)
findInNamedDir(dirs, dirName, sessionId) ==
    IF dirs = <<>> THEN NoPath
    ELSE IF Head(dirs).name = dirName THEN findInProjectDir(Head(dirs), sessionId)
    ELSE findInNamedDir(Tail(dirs), dirName, sessionId)

\* Strategy 3: the directories of projectsDir in the order of readdirSync,
\* first hit wins; what is no directory is skipped
RECURSIVE scanProjectDirs(_, _)
scanProjectDirs(dirs, sessionId) ==
    IF dirs = <<>> THEN NoPath
    ELSE LET found == IF Head(dirs).isDirectory
                      THEN findInProjectDir(Head(dirs), sessionId) ELSE NoPath
         IN  IF found # NoPath THEN found ELSE scanProjectDirs(Tail(dirs), sessionId)

\* strategies 2 and 3 of findTranscriptPath, under an existing projectsDir
findInProjects(found, dirs, sessionId) ==
    IF found # NoPath THEN found ELSE scanProjectDirs(dirs, sessionId)

\* findTranscriptPath: hookData.transcript_path when it exists; otherwise,
\* for a session_id and an existing ~/.claude/projects, the project directory
\* of cwd and then every project directory; readdirSync of a directory that
\* cannot be read throws, which is caught
findTranscriptPath(hookData) ==
    IF hookData.transcript_path = "exists" THEN PathOf("transcript_path", <<>>, 0)
    ELSE IF hookData.session_id = <<>> THEN NoPath
    ELSE IF hookData.projects.kind = "absent" THEN NoPath
    ELSE IF hookData.projects.kind = "unreadable" THEN NoPath
    ELSE findInProjects(
             IF hookData.cwd # <<>>
             THEN findInNamedDir(hookData.projects.dirs,
                                 cwdToProjectDirName(hookData.cwd), hookData.session_id)
             ELSE NoPath,
             hookData.projects.dirs, hookData.session_id)

\* the oracle alone, without the heuristics behind it: with it in place of
\* extractMemories, C9_OracleFailureFallsBack fails
extractMemoriesOracleOnly(conversation, config, workingDir, oracle) ==
    LET ai == tryAIExtraction(conversation.text, oracle)
    IN  [ai |-> ai, heuristicRan |-> FALSE, memories |-> ai]

\* lines 84-87 of main: the oracle first, the heuristics when it gives nothing
extractMemories(conversation, config, workingDir, oracle) ==
    LET ai == tryAIExtraction(conversation.text, oracle)
    IN  IF ai = <<>>
        THEN LET found == heuristicExtraction(conversation, config, workingDir)
             IN  [ ai |-> ai, heuristicRan |-> TRUE,
                   memories |-> [i \in 1..Len(found) |-> RawFact(found[i])] ]
        ELSE [ai |-> ai, heuristicRan |-> FALSE, memories |-> ai]

\* what a run of main has done: the exit code of the process, the exception
\* main threw, the file written, the source of the candidates, ...
NoOutcome ==
    [ exit |-> -1, threw |-> "none", written |-> FALSE, name |-> <<>>,
      source |-> "none", nonArray |-> FALSE,
      summary |-> Summary("", 0, <<>>),
      located |-> FALSE, transcriptPath |-> NoPath,
      reduced |-> FALSE, messageCount |-> 0, conversation |-> <<>>,
      oracleCalled |-> FALSE, ai |-> <<>>, heuristicRan |-> FALSE,
      memories |-> <<>>, validated |-> FALSE, validMemories |-> <<>> ]

\* lines 56-73 of main: the memories of the payload, or else those of its
\* output field, with the summary that comes with them; output.memories is
\* taken as it is, and a string is no array (nonArray) but has a length
payloadMemories(hookData) ==
    IF hookData.memories.array
    THEN [ source |-> "payload", memories |-> hookData.memories.items,
           nonArray |-> FALSE,
           summary |-> Summary(hookData.session_summary, 0, <<>>) ]
    ELSE IF hookData.output.kind = "object" /\ hookData.output.memories.array
    THEN [ source |-> "output", memories |-> hookData.output.memories.items,
           nonArray |-> FALSE,
           summary |-> Summary(hookData.output.session_summary, 0, <<>>) ]
    ELSE IF hookData.output.kind = "object" /\ hookData.output.memories.length > 0
    THEN [ source |-> "output", memories |-> <<>>, nonArray |-> TRUE,
           summary |-> Summary(hookData.output.session_summary, 0, <<>>) ]
    ELSE [ source |-> "none", memories |-> <<>>, nonArray |-> FALSE,
           summary |-> Summary("", 0, <<>>) ]

\* lines 84-93 of main: the memories extracted from a conversation that has
\* text, and the summary main gives the session
extractedOutcome(conversation, extracted, workingDir) ==
    [ NoOutcome EXCEPT
        !.source = IF extracted.heuristicRan THEN "heuristic" ELSE "oracle",
        !.reduced = TRUE,
        !.messageCount = conversation.messageCount,
        !.conversation = conversation.text,
        !.oracleCalled = TRUE,
        !.ai = extracted.ai,
        !.heuristicRan = extracted.heuristicRan,
        !.memories = extracted.memories,
        !.summary = Summary("Session with messages in", conversation.messageCount,
                            basename(workingDir)) ]

\* lines 78-94 of main: the transcript was found and reduced to conversation
transcriptOutcome(payload, conversation, config, workingDir, oracle) ==
    IF conversation.text # <<>>
    THEN extractedOutcome(conversation,
                          extractMemories(conversation, config, workingDir, oracle),
                          workingDir)
    ELSE [ NoOutcome EXCEPT
             !.source = payload.source, !.reduced = TRUE,
             !.messageCount = conversation.messageCount,
             !.memories = payload.memories, !.summary = payload.summary ]

\* lines 77-94 of main: the transcript is extracted from when
\* findTranscriptPath has found one
locatedOutcome(payload, transcriptPath, config, hookData, workingDir) ==
    IF transcriptPath # NoPath
    THEN [ transcriptOutcome(payload,
                             extractConversationText(hookData.transcript, config),
                             config, workingDir, hookData.oracle)
             EXCEPT !.located = TRUE, !.transcriptPath = transcriptPath ]
    ELSE [ NoOutcome EXCEPT
             !.located = TRUE,
             !.source = payload.source, !.memories = payload.memories,
             !.summary = payload.summary ]

\* lines 71-77 of main: the transcript is looked for only when the payload
\* gave no memories and holds a session_id or a cwd
transcriptOrPayload(payload, config, hookData, workingDir) ==
    IF /\ payload.memories = <<>> /\ ~payload.nonArray
       /\ (hookData.session_id # <<>> \/ hookData.cwd # <<>>)
    THEN locatedOutcome(payload, findTranscriptPath(hookData), config, hookData,
                        workingDir)
    ELSE [ NoOutcome EXCEPT
             !.source = payload.source, !.memories = payload.memories,
             !.nonArray = payload.nonArray, !.summary = payload.summary ]

\* lines 56-94 of main: the candidate memories, from the payload's memories,
\* from its output field, or else from the transcript
gatherMemories(config, hookData) ==
    transcriptOrPayload(payloadMemories(hookData), config, hookData,
                        IF hookData.cwd # <<>> THEN hookData.cwd ELSE ProcessCwd)

\* the write without the check on validMemories.length: with it in place of
\* recordOutcome, C10_NothingValidNothingWritten fails
recordOutcomeUnchecked(gathered, validMemories, writeFails, now) ==
    IF gathered.nonArray THEN [gathered EXCEPT !.exit = 1, !.threw = "filter"]
    ELSE IF gathered.memories = <<>> THEN [gathered EXCEPT !.exit = 0]
    ELSE IF writeFails
    THEN [gathered EXCEPT !.exit = 1, !.validated = TRUE, !.validMemories = validMemories]
    ELSE [ gathered EXCEPT
             !.exit = 0, !.validated = TRUE, !.validMemories = validMemories,
             !.written = TRUE, !.name = sessionFileName(now) ]

\* lines 96-128 of main: nothing to record, nothing valid to record, or the
\* write of session_<timestamp>.json and its failure; memories.filter of a
\* string is a TypeError, which rejects main, and the process exits with 1
recordOutcome(gathered, validMemories, writeFails, now) ==
    IF gathered.nonArray THEN [gathered EXCEPT !.exit = 1, !.threw = "filter"]
    ELSE IF gathered.memories = <<>> THEN [gathered EXCEPT !.exit = 0]
    ELSE IF validMemories = <<>>
    THEN [gathered EXCEPT !.exit = 0, !.validated = TRUE]
    ELSE IF writeFails
    THEN [gathered EXCEPT !.exit = 1, !.validated = TRUE, !.validMemories = validMemories]
    ELSE [ gathered EXCEPT
             !.exit = 0, !.validated = TRUE, !.validMemories = validMemories,
             !.written = TRUE, !.name = sessionFileName(now) ]

\* lines 98-128 of main: the filter, and what follows from its result
validateAndRecord(config, gathered, writeFails, now) ==
    recordOutcome(gathered, validateMemories(gathered.memories, config), writeFails, now)

\* lines 24-54 of main, on a loaded config: disabled, stdin that cannot be
\* read, and input that is empty or no JSON object
mainWith(config, hookData, now) ==
    IF ~config.enabled THEN [NoOutcome EXCEPT !.exit = 0]
    ELSE IF hookData.stdin = "error" THEN [NoOutcome EXCEPT !.exit = 1]
    ELSE IF hookData.stdin # "object" THEN [NoOutcome EXCEPT !.exit = 0]
    ELSE validateAndRecord(config, gatherMemories(config, hookData),
                           hookData.writeFails, now)

\* main of save-memory.js on the payload read from stdin, at time now, and
\* the exit code of `main().then(code => process.exit(code)).catch(() =>
\* process.exit(1))`: ensureDirs throws when a directory cannot be made
main(file, hookData, now) ==
    IF hookData.mkdirFails THEN [NoOutcome EXCEPT !.exit = 1, !.threw = "mkdirSync"]
    ELSE mainWith(loadConfig(file), hookData, now)

\* the Session Record main writes
sessionData(input, outcome, now) ==
    [ session_id |-> IF input.session_id # <<>> THEN input.session_id
                     ELSE formatTimestamp(now),
      timestamp |-> now,
      summary |-> outcome.summary,
      memories |-> outcome.validMemories,
      working_directory |-> IF input.cwd # <<>> THEN input.cwd ELSE ProcessCwd ]

HookIdle == [pc |-> "idle", input |-> <<>>, outcome |-> NoOutcome]

\* a session ends: Claude Code starts save-memory.js with the payload on stdin
SessionEnd(input) ==
    /\ hook.pc # "start"
    /\ hook' = [pc |-> "start", input |-> input, outcome |-> NoOutcome]
    /\ UNCHANGED <<configFile, clock, sessions, memoryMd, lastSynthesis, synth, spawned, check>>

\* the directory after main: the record is written under its file name,
\* over any file of that name
writeFileSync(dir, outcome, input, now) ==
    IF outcome.written
    THEN [n \in DOMAIN dir \cup {outcome.name} |->
             IF n = outcome.name THEN sessionData(input, outcome, now) ELSE dir[n]]
    ELSE dir

\* the process after main has returned
returned(outcome) == [hook EXCEPT !.pc = "done", !.outcome = outcome]

\* what one run of main leaves: the process state and the directory
saved(outcome) ==
    /\ hook' = returned(outcome)
    /\ sessions' = writeFileSync(sessions, outcome, hook.input, clock)

\* save-memory.js runs main and returns its exit code
SaveMemory ==
    /\ hook.pc = "start"
    /\ saved(main(configFile, hook.input, clock))
    /\ UNCHANGED <<configFile, clock, memoryMd, lastSynthesis, synth, spawned, check>>

\* the save-memory.js process is gone
HookExit ==
    /\ hook.pc = "done"
    /\ hook' = HookIdle
    /\ UNCHANGED <<configFile, clock, sessions, memoryMd, lastSynthesis, synth, spawned, check>>

-----------------------------------------------------------------------------
(* The synthesize-memory.js process, one file-system operation per step *)

Never == -1

\* what is remembered of the run before: whether it wrote the document, the
\* session files it read, and the document as that run left it
NoRun == [wrote |-> FALSE, store |-> <<>>, doc |-> <<>>]

\* the synthesis process: its position, argv and config, what it has read
\* (store) and loaded (memories), what it has computed and written, the
\* listing and cutoff of its cleanup, and the files it has unlinked
SynthIdle ==
    [ pc |-> "idle", noCleanup |-> FALSE, config |-> DEFAULT_CONFIG,
      store |-> <<>>, memories |-> <<>>, byCategory |-> <<>>, time |-> 0,
      wrote |-> FALSE, files |-> <<>>, cutoff |-> 0, removed |-> <<>>,
      previous |-> NoRun ]

SynthRunning == synth.pc \in {"load", "write", "state", "cleanup", "unlink"}

\* cleanup ahead of the write: with it in place of afterLoad,
\* C7_NothingDeletedBeforeWrite fails
afterLoadCleanupFirst(memories) == IF memories = <<>> THEN "exit" ELSE "cleanup"

\* a run without the early return: with it in place of afterLoad,
\* C28_RunWithoutFactsChangesNothing fails
afterLoadAlwaysWrite(memories) == "write"

\* where main goes after loadSessionMemories: `if (!memories.length) return 0`
afterLoad(memories) == IF memories = <<>> THEN "exit" ELSE "write"

\* a run that prunes whatever its arguments: with it in place of
\* afterSaveState, C19_NoCleanupDeletesNothing fails
afterSaveStateCleanup(noCleanup) == "cleanup"

\* where main goes after saveSynthesisState: `if (!noCleanup)`
afterSaveState(noCleanup) == IF noCleanup THEN "exit" ELSE "cleanup"

\* the run that ends when a new one starts
LastRun == [wrote |-> synth.wrote, store |-> synth.store, doc |-> memoryMd]

\* node synthesize-memory.js [--no-cleanup]: argv and loadConfig
SynthStart(noCleanup) ==
    /\ ~SynthRunning
    /\ synth' = [SynthIdle EXCEPT !.pc = "load", !.noCleanup = noCleanup,
                                  !.config = loadConfig(configFile),
                                  !.previous = LastRun]
    /\ UNCHANGED <<configFile, clock, sessions, memoryMd, lastSynthesis, spawned, hook, check>>

\* the detached child of check-synthesis.js starts running
SynthBackground ==
    /\ ~SynthRunning
    /\ spawned > 0
    /\ spawned' = spawned - 1
    /\ synth' = [SynthIdle EXCEPT !.pc = "load", !.config = loadConfig(configFile),
                                  !.previous = LastRun]
    /\ UNCHANGED <<configFile, clock, sessions, memoryMd, lastSynthesis, hook, check>>

\* main: loadSessionMemories(sessionsDir)
SynthLoad ==
    /\ synth.pc = "load"
    /\ LET memories == loadSessionMemories(sessions)
       IN  synth' = [synth EXCEPT !.store = sessions, !.memories = memories,
                                  !.pc = afterLoad(memories)]
    /\ UNCHANGED <<configFile, clock, sessions, memoryMd, lastSynthesis, spawned, hook, check>>

\* a write that leaves an existing MEMORY.md alone: with it in place of
\* writeMemoryFile, C14_DocumentFromRecordsRead fails
writeMemoryFileOnce(previous, memoryContent) ==
    IF previous = <<>> THEN memoryContent ELSE previous

\* fs.writeFileSync(memoryFile, memoryContent): the file holds the new
\* content and nothing of what it held
writeMemoryFile(previous, memoryContent) == memoryContent

\* main: deduplicateMemories, generateMemoryMd, fs.writeFileSync(memoryFile)
SynthWrite ==
    /\ synth.pc = "write"
    /\ LET maxPerCategory == OrDefault(synth.config.max_memories_per_category, 15)
           memoriesByCategory == deduplicateMemories(synth.memories, maxPerCategory)
       IN  /\ memoryMd' = writeMemoryFile(memoryMd, generateMemoryMd(memoriesByCategory, clock))
           /\ synth' = [synth EXCEPT !.byCategory = memoriesByCategory,
                                     !.time = clock, !.wrote = TRUE, !.pc = "state"]
    /\ UNCHANGED <<configFile, clock, sessions, lastSynthesis, spawned, hook, check>>

\* a run that leaves last-synthesis.json as it found it: with it in place of
\* SynthSaveState, C26_StateRewrittenAfterSynthesis fails
SynthSaveStateSkipped ==
    /\ synth.pc = "state"
    /\ synth' = [synth EXCEPT !.pc = afterSaveState(synth.noCleanup)]
    /\ UNCHANGED <<configFile, clock, sessions, memoryMd, lastSynthesis, spawned, hook, check>>

\* main: saveSynthesisState(synthesisDir, synthesisTime)
SynthSaveState ==
    /\ synth.pc = "state"
    /\ lastSynthesis' = synth.time
    /\ synth' = [synth EXCEPT !.pc = afterSaveState(synth.noCleanup)]
    /\ UNCHANGED <<configFile, clock, sessions, memoryMd, spawned, hook, check>>

\* cleanupOldSessions: the cutoff and the directory listing
SynthCleanup ==
    /\ synth.pc = "cleanup"
    /\ synth' = [synth EXCEPT
                    !.cutoff = cleanupCutoff(clock, OrDefault(synth.config.cleanup_after_days, 30)),
                    !.files = readdirSync(sessions),
                    !.pc = "unlink"]
    /\ UNCHANGED <<configFile, clock, sessions, memoryMd, lastSynthesis, spawned, hook, check>>

\* cleanupOldSessions: one turn of the loop over the listed files
SynthUnlink ==
    /\ synth.pc = "unlink"
    /\ synth.files # <<>>
    /\ LET file == Head(synth.files)
       IN  IF file \in DOMAIN sessions /\ shouldUnlink(file, synth.cutoff)
           THEN /\ sessions' = [n \in DOMAIN sessions \ {file} |-> sessions[n]]
                /\ synth' = [synth EXCEPT
                                !.files = Tail(synth.files),
                                !.removed = Append(synth.removed,
                                                   [name |-> file, data |-> sessions[file]])]
           ELSE /\ sessions' = sessions
                /\ synth' = [synth EXCEPT !.files = Tail(synth.files)]
    /\ UNCHANGED <<configFile, clock, memoryMd, lastSynthesis, spawned, hook, check>>

\* the process is gone: what stays is what it made of the directory
exited(pc) ==
    [SynthIdle EXCEPT !.pc = pc, !.noCleanup = synth.noCleanup, !.config = synth.config,
                      !.store = synth.store, !.time = synth.time,
                      !.wrote = synth.wrote, !.files = synth.files,
                      !.removed = synth.removed]

\* cleanupOldSessions returns; main prints the summary and returns 0
SynthFinish ==
    /\ \/ synth.pc = "exit"
       \/ synth.pc = "unlink" /\ synth.files = <<>>
    /\ synth' = exited("done")
    /\ UNCHANGED <<configFile, clock, sessions, memoryMd, lastSynthesis, spawned, hook, check>>

\* the process is killed between two file-system operations
SynthCrash ==
    /\ SynthRunning
    /\ synth' = exited("crashed")
    /\ UNCHANGED <<configFile, clock, sessions, memoryMd, lastSynthesis, spawned, hook, check>>

-----------------------------------------------------------------------------
(* Session-start check (check-synthesis.js) and the passing of time *)

\* a last-synthesis.json that is no JSON, and one that is JSON whose
\* last_synthesis is no date
NotJson == -2
NoDate == -3

\* getLastSynthesisTime: null when the file is absent or cannot be parsed,
\* new Date(state.last_synthesis) otherwise, which may be an Invalid Date
getLastSynthesisTime(state) == IF state = NotJson THEN Never ELSE state

\* the test without countPendingSessions: with it in place of
\* needsSynthesis, C8_LaunchOnlyWhenDueAndPending fails
needsSynthesisAlways(config, last, now, pending) ==
    IF last = Never THEN TRUE
    ELSE /\ last # NoDate
         /\ now >= last + OrDefault(config.synthesis_interval_hours, 24) * SecondsPerHour

\* needsSynthesis of check-synthesis.js: never synthesized, or the interval
\* (config.synthesis_interval_hours || 24) has passed; and in both cases
\* countPendingSessions(sessionsDir) > 0. `now >= nextSynthesis` is false
\* when nextSynthesis is an Invalid Date
needsSynthesis(config, last, now, pending) ==
    IF last = Never THEN pending > 0
    ELSE /\ last # NoDate
         /\ now >= last + OrDefault(config.synthesis_interval_hours, 24) * SecondsPerHour
         /\ pending > 0

\* the number of session_*.json files in the sessions directory
countPendingSessions(dir) == Cardinality(DOMAIN dir)

\* the most children of check-synthesis.js that wait to start
MaxSpawned == 1

\* what a session start meets: fs.mkdirSync throws in ensureDirs (a directory
\* that cannot be made, or a file where a directory is to be), spawn throws
StartEnv(mkdirFails, spawnFails) == [mkdirFails |-> mkdirFails, spawnFails |-> spawnFails]

CheckIdle ==
    [pc |-> "idle", env |-> StartEnv(FALSE, FALSE), exit |-> -1, needsSynthesis |-> FALSE]

\* main of check-synthesis.js with the test for enabled left out: with it in
\* place of checkMain, C13_PausedHooksChangeNothing fails
checkMainEnabled(file, state, dir, env, now) ==
    IF env.mkdirFails THEN [exit |-> 1, needsSynthesis |-> FALSE]
    ELSE [ exit |-> 0,
           needsSynthesis |->
               needsSynthesis(loadConfig(file), getLastSynthesisTime(state), now,
                              countPendingSessions(dir)) ]

\* main of check-synthesis.js and the exit code of `process.exit(main())`:
\* ensureDirs is called outside any try, and an uncaught exception ends the
\* process with code 1; a disabled config returns 0 before anything is read
checkMain(file, state, dir, env, now) ==
    IF env.mkdirFails THEN [exit |-> 1, needsSynthesis |-> FALSE]
    ELSE IF ~loadConfig(file).enabled THEN [exit |-> 0, needsSynthesis |-> FALSE]
    ELSE [ exit |-> 0,
           needsSynthesis |->
               needsSynthesis(loadConfig(file), getLastSynthesisTime(state), now,
                              countPendingSessions(dir)) ]

\* a session starts: check-synthesis.js runs main; the spawn of the detached
\* synthesize-memory.js succeeds or throws, and main returns 0 either way
CheckSynthesis(env) ==
    /\ check.pc = "idle"
    /\ LET run == checkMain(configFile, lastSynthesis, sessions, env, clock)
           launched == run.needsSynthesis /\ ~env.spawnFails
       IN  /\ launched => spawned < MaxSpawned
           /\ spawned' = IF launched THEN spawned + 1 ELSE spawned
           /\ check' = [ pc |-> "done", env |-> env, exit |-> run.exit,
                         needsSynthesis |-> run.needsSynthesis ]
    /\ UNCHANGED <<configFile, clock, sessions, memoryMd, lastSynthesis, synth, hook>>

\* the check-synthesis.js process is gone
CheckExit ==
    /\ check.pc = "done"
    /\ check' = CheckIdle
    /\ UNCHANGED <<configFile, clock, sessions, memoryMd, lastSynthesis, synth, spawned,
                   hook>>

\* the clock values of the model: at most MaxDays days after the start
MaxDays == 2

\* time passes, a day at a time, while no process is in the middle of a run
Tick ==
    /\ ~SynthRunning
    /\ hook.pc # "start"
    /\ clock \div SecondsPerDay < MaxDays
    /\ clock' = clock + SecondsPerDay
    /\ UNCHANGED <<configFile, sessions, memoryMd, lastSynthesis, synth, spawned, hook, check>>

-----------------------------------------------------------------------------
(* SpecSynthesis: one synthesis run over every small session store *)

MaxFacts == 3

ContentA == Rep("a", 21)
ContentB == Rep("b", 21)
ContentAB == ContentA \o ContentB
ContentA20 == Rep("a", 20)
ContentShort == <<"x", "y">>
ContentShortPadded == <<" ", "X", "y", " ">>

ContentPool ==
    {ContentA, ContentB, ContentAB, ContentA20, ContentShort, ContentShortPadded}

\* facts of two known categories, and of three that CATEGORY_ORDER does not
\* list, one of them named by a number
FactPool ==
    [category : {"preferences"}, content : ContentPool]
    \cup [category : {"work_context", "zeta", "custom", "7"}, content : {ContentA}]

FactSeqs == UNION {[1..n -> FactPool] : n \in 0..MaxFacts}

\* the session files written at consecutive seconds: fact i + 1 opens a new
\* file when i is a cut, otherwise it joins the file of fact i
RECURSIVE FileIndex(_, _)
FileIndex(i, cuts) ==
    IF i <= 1 THEN 1
    ELSE FileIndex(i - 1, cuts) + (IF (i - 1) \in cuts THEN 1 ELSE 0)

SessionRecord(date, memories) ==
    [ session_id |-> formatTimestamp(date), timestamp |-> date,
      summary |-> Summary("", 0, <<>>),
      memories |-> memories, working_directory |-> ProcessCwd ]

StoreOf(facts, cuts) ==
    LET FactsOf(f) ==
            LET In(i) == FileIndex(i, cuts) = f
                RECURSIVE Pick(_)
                Pick(i) == IF i > Len(facts) THEN <<>>
                           ELSE (IF In(i) THEN <<facts[i]>> ELSE <<>>) \o Pick(i + 1)
            IN  Pick(1)
        count == IF facts = <<>> THEN 0 ELSE FileIndex(Len(facts), cuts)
    IN  [name \in {sessionFileName(f) : f \in 1..count} |->
            SessionRecord(parseFileDate(name), FactsOf(parseFileDate(name)))]

InitSynthesis ==
    /\ \E cap \in {0, 1, 2} : configFile = [max_memories_per_category |-> cap]
    /\ \E facts \in FactSeqs : \E cuts \in SUBSET (1..(Len(facts) - 1)) :
          sessions = StoreOf(facts, cuts)
    /\ clock = MaxFacts + 1
    /\ memoryMd = <<>>
    /\ lastSynthesis = Never
    /\ synth = SynthIdle
    /\ spawned = 0
    /\ hook = HookIdle
    /\ check = CheckIdle

NextSynthesis ==
    \/ \E noCleanup \in BOOLEAN : synth.pc = "idle" /\ SynthStart(noCleanup)
    \/ SynthLoad
    \/ SynthWrite
    \/ SynthSaveState
    \/ SynthCleanup
    \/ SynthUnlink
    \/ SynthFinish

SpecSynthesis == InitSynthesis /\ [][NextSynthesis]_vars

-----------------------------------------------------------------------------
(* SpecSessionEnd: one run of save-memory.js on every small payload *)

MaxCandidates == 2
MaxTranscript == 3

TextPrefer == <<"I", " ", "p", "r", "e", "f", "e", "r", " ", "t", "a", "b", "s">>
TextWorkAt == <<"I", " ", "w", "o", "r", "k", " ", "a", "t", " ", "A", "c", "m", "e">>
TextTiny == <<"o", "k", " ", "o", "k">>
TextDone == <<"S", "u", "r", "e", ",", " ", "d", "o", "n", "e", " ", "n", "o", "w">>

Entry(type, role, content) ==
    [ json |-> TRUE, hasMessage |-> TRUE, type |-> type, isMeta |-> FALSE,
      role |-> role, content |-> content ]

UserEntry(text) == Entry("user", "user", StringContent(text))
AssistantEntry(text) == Entry("assistant", "assistant", StringContent(text))
ProgressEntry == [Entry("progress", "", NoContent) EXCEPT !.hasMessage = FALSE]

EntryPool ==
    { UserEntry(TextPrefer), UserEntry(TextWorkAt), UserEntry(TextTiny),
      AssistantEntry(TextDone), ProgressEntry }

Transcripts == UNION {[1..n -> EntryPool] : n \in 0..MaxTranscript}

ContentTabs == <<"u", "s", "e", "s", " ", "t", "a", "b", "s">>
ContentLong == Rep("a", 501)

Missing == [type |-> "undefined", value |-> "", number |-> 0]
MissingText == [type |-> "undefined", value |-> <<>>, number |-> 0]
Number(n, empty) == [type |-> "number", value |-> empty, number |-> n]

CandidatePool ==
    { Candidate("preferences", ContentTabs),
      Candidate("work_context", ContentLong),
      Candidate("custom", ContentTabs),
      Candidate("preferences", <<>>),
      [Candidate("preferences", <<>>) EXCEPT !.content = Number(42, <<>>)],
      [Candidate("", ContentTabs) EXCEPT !.category = Number(7, "")],
      [Candidate("", ContentTabs) EXCEPT !.category = Missing],
      [Candidate("", <<>>) EXCEPT !.kind = "null", !.category = Missing,
                                  !.content = MissingText] }

CandidateLists == UNION {[1..n -> CandidatePool] : n \in 0..MaxCandidates}

\* the memories of a payload: absent (NoArray), an array, or a string with
\* that many characters
NoArray == [array |-> FALSE, items |-> <<>>, length |-> 0]
Array(items) == [array |-> TRUE, items |-> items, length |-> Len(items)]
StringOfLength(n) == [array |-> FALSE, items |-> <<>>, length |-> n]

NoOutput == [kind |-> "absent", memories |-> NoArray, session_summary |-> ""]

NoOracle == [outcome |-> "unavailable", memories |-> <<>>]

Oracles ==
    [outcome : OracleFailures, memories : {<<>>}]
    \cup [outcome : {"ok"},
          memories : { <<>>,
                       <<Candidate("preferences", ContentTabs)>>,
                       <<Candidate("custom", ContentTabs), [Candidate("", ContentTabs) EXCEPT !.category = Missing]>> }]

ProjectDir == <<"/", "h", "o", "m", "e", "/", "u", "/", "a", "p", "p">>

\* ~/.claude/projects: absent, unreadable, or a directory and what it holds
\* in the order of readdirSync; of each entry its name, whether it is a
\* directory, its sessions-index.json, and the session whose <id>.jsonl it
\* holds (<<>>: none)
NoIndex == [kind |-> "absent", entries |-> <<>>]
NoProjects == [kind |-> "absent", dirs |-> <<>>]
Projects(dirs) == [kind |-> "directory", dirs |-> dirs]
ProjectEntry(name, index, direct) ==
    [name |-> name, isDirectory |-> TRUE, index |-> index, direct |-> direct]

\* the project directory of ProjectDir, with the transcript of session s1
HomeProject == ProjectEntry(cwdToProjectDirName(ProjectDir), NoIndex, <<"s1">>)

\* a payload { session_id, cwd, transcript_path } of Claude Code
HookData ==
    [ stdin |-> "object", memories |-> NoArray, output |-> NoOutput,
      session_summary |-> "", session_id |-> <<"s1">>, cwd |-> ProjectDir,
      transcript_path |-> "exists", projects |-> Projects(<<HomeProject>>),
      transcript |-> <<>>,
      oracle |-> NoOracle, writeFails |-> FALSE, mkdirFails |-> FALSE ]

\* stdin that cannot be read, is empty, is no JSON, or is no JSON object
StdinInputs == {[HookData EXCEPT !.stdin = s] : s \in {"error", "empty", "garbage", "scalar"}}

\* pre-extracted memories in the payload, with or without a transcript
PayloadInputs ==
    { [HookData EXCEPT !.memories = Array(items), !.session_summary = summary,
                       !.transcript = transcript, !.writeFails = fails] :
        items \in CandidateLists, summary \in {"", "recap"},
        transcript \in {<<>>, <<UserEntry(TextPrefer)>>}, fails \in BOOLEAN }

\* memories wrapped in the payload's output field
OutputInputs ==
    { [HookData EXCEPT !.memories = memories, !.output = output,
                       !.transcript_path = "absent", !.projects = NoProjects] :
        memories \in {NoArray, Array(<<>>)},
        output \in [kind : {"garbage"}, memories : {NoArray}, session_summary : {""}]
                   \cup [kind : {"object"},
                         memories : {NoArray, StringOfLength(3)}
                                    \cup {Array(items) : items \in CandidateLists},
                         session_summary : {"recap"}] }

\* session metadata only: the facts come from the transcript
TranscriptInputs ==
    { [HookData EXCEPT !.transcript = transcript, !.oracle = oracle] :
        transcript \in Transcripts, oracle \in Oracles }
    \cup { [HookData EXCEPT !.transcript = <<UserEntry(TextPrefer), AssistantEntry(TextDone)>>,
                            !.session_id = id, !.cwd = cwd,
                            !.transcript_path = path, !.projects = projects] :
             id \in {<<>>, <<"s1">>}, cwd \in {<<>>, ProjectDir},
             path \in {"absent", "missing", "exists"},
             projects \in {NoProjects, Projects(<<HomeProject>>)} }

\* the memory directory, or one under it, cannot be made
MkdirInputs ==
    { [HookData EXCEPT !.mkdirFails = TRUE, !.stdin = stdin, !.memories = memories] :
        stdin \in {"object", "empty"},
        memories \in {NoArray, Array(<<Candidate("preferences", ContentTabs)>>)} }

HookInputs ==
    StdinInputs \cup PayloadInputs \cup OutputInputs \cup TranscriptInputs
    \cup MkdirInputs

ConfigFiles ==
    { <<>>,
      [enabled |-> FALSE],
      [categories |-> {}],
      [categories |-> {"preferences", "custom"}],
      [min_messages |-> 0],
      [min_messages |-> 2],
      [min_messages |-> 3, categories |-> {"work_context"}] }

InitSessionEnd ==
    /\ configFile \in ConfigFiles
    /\ clock = 1
    /\ sessions = <<>>
    /\ memoryMd = <<>>
    /\ lastSynthesis = Never
    /\ synth = SynthIdle
    /\ spawned = 0
    /\ \E input \in HookInputs : hook = [pc |-> "start", input |-> input, outcome |-> NoOutcome]
    /\ check = CheckIdle

NextSessionEnd == SaveMemory

SpecSessionEnd == InitSessionEnd /\ [][NextSessionEnd]_vars

-----------------------------------------------------------------------------
(* SpecLocator: one run of save-memory.js on session metadata, over every
   small ~/.claude/projects *)

MaxIndex == 2
MaxProjectDirs == 2

\* C:\w, a working directory on Windows
WindowsDir == <<"C", ":", "\\", "w">>

IndexEntry(sessionId, path, exists) ==
    [sessionId |-> sessionId, path |-> path, exists |-> exists]

\* entries of a sessions-index.json: of this session with a path that exists
\* or is gone, and of another session
IndexEntries ==
    { IndexEntry(<<"s1">>, TRUE, TRUE), IndexEntry(<<"s1">>, TRUE, FALSE),
      IndexEntry(<<"s2">>, TRUE, TRUE) }

Indexes ==
    { NoIndex, [kind |-> "corrupt", entries |-> <<>>] }
    \cup { [kind |-> "array", entries |-> entries] :
             entries \in UNION {[1..n -> IndexEntries] : n \in 0..MaxIndex} }

ProjectNames == {cwdToProjectDirName(ProjectDir), cwdToProjectDirName(WindowsDir)}

\* what ~/.claude/projects may hold under a name: a plain file, or a
\* project directory
ProjectEntries(name) ==
    { [ProjectEntry(name, NoIndex, <<>>) EXCEPT !.isDirectory = FALSE] }
    \cup { ProjectEntry(name, index, direct) :
             index \in Indexes, direct \in {<<>>, <<"s1">>} }

\* the names of a listing of ~/.claude/projects: different names, in the
\* order of readdirSync
ProjectNameLists ==
    { names \in UNION {[1..n -> ProjectNames] : n \in 0..MaxProjectDirs} :
        \A i, j \in 1..Len(names) : i # j => names[i] # names[j] }

\* the listings of ~/.claude/projects
ProjectListings ==
    UNION { { dirs \in [1..Len(names) -> UNION {ProjectEntries(name) : name \in ProjectNames}] :
                \A i \in 1..Len(names) : dirs[i].name = names[i] } :
            names \in ProjectNameLists }

LocatorInputs ==
    { [HookData EXCEPT !.transcript = <<UserEntry(TextPrefer)>>,
                       !.session_id = id, !.cwd = cwd,
                       !.transcript_path = path, !.projects = projects] :
        id \in {<<>>, <<"s1">>}, cwd \in {<<>>, ProjectDir, WindowsDir},
        path \in {"absent", "missing", "exists"},
        projects \in {NoProjects, [kind |-> "unreadable", dirs |-> <<>>]}
                     \cup {Projects(dirs) : dirs \in ProjectListings} }

InitLocator ==
    /\ configFile = [min_messages |-> 1]
    /\ clock = 1
    /\ sessions = <<>>
    /\ memoryMd = <<>>
    /\ lastSynthesis = Never
    /\ synth = SynthIdle
    /\ spawned = 0
    /\ \E input \in LocatorInputs : hook = [pc |-> "start", input |-> input, outcome |-> NoOutcome]
    /\ check = CheckIdle

NextLocator == SaveMemory

SpecLocator == InitLocator /\ [][NextLocator]_vars

-----------------------------------------------------------------------------
(* Spec: the hooks, the synthesis process and the clock on one memory
   directory, from a fresh installation *)

\* the most session files in the store
MaxSessions == 2

SystemConfigs ==
    { [enabled |-> FALSE],
      [synthesis_interval_hours |-> 48, cleanup_after_days |-> 1],
      [synthesis_interval_hours |-> 0, cleanup_after_days |-> 0,
       max_memories_per_category |-> 1] }

\* payloads with one fact each; the second fact contains the first
SystemInputs ==
    { [HookData EXCEPT !.memories = Array(<<Candidate("preferences", content)>>)] :
        content \in {ContentA, ContentAB} }

Init ==
    /\ configFile \in SystemConfigs
    /\ clock = 0
    /\ sessions = <<>>
    /\ memoryMd = <<>>
    /\ lastSynthesis = Never
    /\ synth = SynthIdle
    /\ spawned = 0
    /\ hook = HookIdle
    /\ check = CheckIdle

\* a hook process exits as soon as main has returned: nothing else happens
\* between its return and its exit
HookGone == hook.pc # "done" /\ check.pc # "done"

\* the session starts of the system: every directory can be made
SystemStarts == {StartEnv(FALSE, spawnFails) : spawnFails \in BOOLEAN}

Next ==
    \/ HookExit
    \/ CheckExit
    \/ HookGone /\ Tick
    \/ HookGone /\ \E input \in SystemInputs :
                      Cardinality(DOMAIN sessions) < MaxSessions /\ SessionEnd(input)
    \/ HookGone /\ SaveMemory
    \/ HookGone /\ \E env \in SystemStarts : CheckSynthesis(env)
    \/ HookGone /\ SynthBackground
    \/ HookGone /\ \E noCleanup \in BOOLEAN : SynthStart(noCleanup)
    \/ HookGone /\ SynthLoad
    \/ HookGone /\ SynthWrite
    \/ HookGone /\ SynthSaveState
    \/ HookGone /\ SynthCleanup
    \/ HookGone /\ SynthUnlink
    \/ HookGone /\ SynthFinish
    \/ HookGone /\ SynthCrash

Spec == Init /\ [][Next]_vars


-----------------------------------------------------------------------------
(* SpecHooks: session starts and session ends over every small memory
   directory, while memory is paused and resumed *)

\* /memory-pause and /memory-resume: "enabled" is set in memory-config.json
\* and every other setting is preserved; a missing file is created, by
\* resume with the default settings
setEnabled(file, enabled) ==
    IF file = <<>> /\ enabled THEN DEFAULT_CONFIG
    ELSE [k \in DOMAIN file \cup {"enabled"} |->
             IF k = "enabled" THEN enabled ELSE file[k]]

\* the user runs /memory-pause, on a config file that is JSON or absent
MemoryPause ==
    /\ "garbage" \notin DOMAIN configFile
    /\ configFile' = setEnabled(configFile, FALSE)
    /\ UNCHANGED <<clock, sessions, memoryMd, lastSynthesis, synth, spawned, hook, check>>

\* the user runs /memory-resume
MemoryResume ==
    /\ "garbage" \notin DOMAIN configFile
    /\ configFile' = setEnabled(configFile, TRUE)
    /\ UNCHANGED <<clock, sessions, memoryMd, lastSynthesis, synth, spawned, hook, check>>

\* memory-config.json: absent, no JSON, paused, and with a short interval
HooksConfigs ==
    { <<>>, NotJsonConfig, [enabled |-> FALSE],
      [enabled |-> FALSE, synthesis_interval_hours |-> 1],
      [synthesis_interval_hours |-> 1] }

\* sessions/: empty, or holding one record
HooksStores == {<<>>, StoreOf(<<Fact("preferences", ContentB)>>, {})}

\* MEMORY.md: absent, or as a synthesis of the store has written it
HooksDocuments(store) ==
    {<<>>, generateMemoryMd(deduplicateMemories(loadSessionMemories(store), 15), 1)}

\* last-synthesis.json: absent, no JSON, without a date, and of the start
HooksStates == {Never, NotJson, NoDate, 0}

\* payloads with one fact, and invocations that cannot read stdin or cannot
\* make the directories
HooksInputs ==
    SystemInputs
    \cup {[HookData EXCEPT !.stdin = "error"], [HookData EXCEPT !.mkdirFails = TRUE]}

StartEnvs ==
    {StartEnv(mkdirFails, spawnFails) : mkdirFails \in BOOLEAN, spawnFails \in BOOLEAN}

InitHooks ==
    /\ configFile \in HooksConfigs
    /\ clock = 2
    /\ sessions \in HooksStores
    /\ memoryMd \in HooksDocuments(sessions)
    /\ lastSynthesis \in HooksStates
    /\ synth = SynthIdle
    /\ spawned = 0
    /\ hook = HookIdle
    /\ check = CheckIdle

NextHooks ==
    \/ HookExit
    \/ CheckExit
    \/ HookGone /\ Tick
    \/ HookGone /\ \E input \in HooksInputs :
                      Cardinality(DOMAIN sessions) < MaxSessions /\ SessionEnd(input)
    \/ HookGone /\ SaveMemory
    \/ HookGone /\ \E env \in StartEnvs : CheckSynthesis(env)
    \/ HookGone /\ MemoryPause
    \/ HookGone /\ MemoryResume

SpecHooks == InitHooks /\ [][NextHooks]_vars


-----------------------------------------------------------------------------
(* SpecReducer: one run of save-memory.js on every small transcript, with
   texts around the 5 characters of the noise test and messages around the
   MAX_CONVERSATION_BYTES of the budget *)

\* texts of 4 and of 6 characters (TextTiny has 5)
TextOkay == <<"o", "k", "a", "y">>
TextThanks == <<"t", "h", "a", "n", "k", "s">>

\* a text with which a USER: message has half of MAX_CONVERSATION_BYTES
TextHalf == Rep("a", (MAX_CONVERSATION_BYTES \div 2) - Len(UserPrefix))

\* short entries, in every order of their roles
ShortPool ==
    { UserEntry(TextThanks), UserEntry(TextTiny), UserEntry(TextOkay),
      AssistantEntry(TextDone), ProgressEntry }

\* entries of which two fill the budget, and a short one
LongPool == {UserEntry(TextHalf), AssistantEntry(TextHalf), UserEntry(TextThanks)}

ReducerTranscripts ==
    UNION {[1..n -> ShortPool] : n \in 0..MaxTranscript}
    \cup UNION {[1..n -> LongPool] : n \in 2..MaxTranscript}

\* the oracle answers with one fact, so that the conversation text is all
\* that the transcript contributes
ReducerInputs ==
    { [HookData EXCEPT !.transcript = transcript,
                       !.oracle = [outcome |-> "ok",
                                   memories |-> <<Candidate("preferences", ContentTabs)>>]] :
        transcript \in ReducerTranscripts }

InitReducer ==
    /\ configFile = [min_messages |-> 1]
    /\ clock = 1
    /\ sessions = <<>>
    /\ memoryMd = <<>>
    /\ lastSynthesis = Never
    /\ synth = SynthIdle
    /\ spawned = 0
    /\ \E input \in ReducerInputs : hook = [pc |-> "start", input |-> input, outcome |-> NoOutcome]
    /\ check = CheckIdle

NextReducer == SaveMemory

SpecReducer == InitReducer /\ [][NextReducer]_vars

-----------------------------------------------------------------------------
(* SpecStores: one synthesis run over stores that hold records without
   facts *)

\* the memories of a session file: none (an empty list, or a file that
\* JSON.parse rejects, of which the catch block of loadSessionMemories takes
\* nothing), or one fact
StoredMemories == {<<>>, <<[category |-> "preferences", content |-> ContentA]>>}

\* the files of a store were written on days 0 .. MaxDays, one a day
StoreNames == {sessionFileName(day * SecondsPerDay) : day \in 0..MaxDays}

Stores ==
    UNION {[names -> StoredMemories] : names \in SUBSET StoreNames}

\* a MEMORY.md that an earlier run wrote
EarlierDocument ==
    generateMemoryMd(deduplicateMemories(
        <<[category |-> "work_context", content |-> ContentB,
           timestamp |-> 0, source_file |-> sessionFileName(0)]>>, 15), 0)

InitStores ==
    /\ \E days \in {0, 1} : configFile = [cleanup_after_days |-> days]
    /\ \E store \in Stores :
          sessions = [name \in DOMAIN store |->
                         SessionRecord(parseFileDate(name), store[name])]
    /\ clock = (MaxDays + 1) * SecondsPerDay
    /\ memoryMd \in {<<>>, EarlierDocument}
    /\ lastSynthesis \in {Never, 0}
    /\ synth = SynthIdle
    /\ spawned = 0
    /\ hook = HookIdle
    /\ check = CheckIdle

NextStores ==
    \/ \E noCleanup \in BOOLEAN : synth.pc = "idle" /\ SynthStart(noCleanup)
    \/ SynthLoad
    \/ SynthWrite
    \/ SynthSaveState
    \/ SynthCleanup
    \/ SynthUnlink
    \/ SynthFinish

SpecStores == InitStores /\ [][NextStores]_vars

-----------------------------------------------------------------------------
(* Properties of one session-end invocation, checked under SpecSessionEnd *)

\* the configuration the invocation loads
Config == loadConfig(configFile)

\* the invocation has ended, having read a JSON object from stdin
Ended == hook.pc = "done" /\ hook.input.stdin = "object"

\* C1: under a configuration whose category set is non-empty, every fact of
\* every Session Record in the store has a category of that set, whichever
\* source the facts came from
C1_CategoriesConfigured ==
    \A name \in DOMAIN sessions :
        \A i \in 1..Len(sessions[name].memories) :
            Config.categories # {}
                => sessions[name].memories[i].category \in Config.categories

\* a record was written under a non-empty category set from candidates of
\* which one names a category outside the set
C1_Witness ==
    /\ Ended /\ hook.outcome.written /\ sessions # <<>>
    /\ Config.categories # {}
    /\ \E i \in 1..Len(hook.outcome.memories) :
          LET mem == hook.outcome.memories[i]
          IN  mem.kind = "object" /\ mem.category.type = "string"
              /\ mem.category.value \notin Config.categories

\* the number of user and assistant entries the reducer retains of the
\* session's transcript
RetainedCount == extractConversationText(hook.input.transcript, Config).messageCount

\* the payload of the invocation carries facts of its own, in memories or in
\* output.memories
CarriesMemories ==
    \/ hook.input.memories.items # <<>>
    \/ (~hook.input.memories.array /\ hook.input.output.kind = "object"
        /\ hook.input.output.memories.items # <<>>)

\* C2 as stated: an invocation whose session reduces to fewer retained
\* entries than min_messages writes no Session Record
C2_AsStated ==
    (Ended /\ Config.enabled /\ RetainedCount < Config.min_messages)
        => ~hook.outcome.written

\* C2: an invocation whose payload carries no facts of its own and whose
\* session reduces to fewer retained entries than min_messages records zero
\* facts: no Session Record is written, whatever the transcript contains
C2_NoRecordBelowMinMessages ==
    (Ended /\ Config.enabled /\ ~CarriesMemories /\ RetainedCount < Config.min_messages)
        => /\ ~hook.outcome.written
           /\ hook.outcome.memories = <<>>
           /\ sessions = <<>>

\* a located transcript with a signal phrase and a willing oracle, one entry
\* short of min_messages
C2_Witness ==
    /\ Ended /\ Config.enabled /\ ~CarriesMemories
    /\ findTranscriptPath(hook.input) # NoPath /\ hook.outcome.reduced
    /\ RetainedCount >= 1 /\ RetainedCount + 1 = Config.min_messages
    /\ \E i \in 1..Len(hook.input.transcript) :
          hook.input.transcript[i] = UserEntry(TextPrefer)
    /\ hook.input.oracle.outcome = "ok" /\ hook.input.oracle.memories # <<>>

\* the facts the heuristics find in the reduced conversation of the session
HeuristicFacts ==
    heuristicExtraction(extractConversationText(hook.input.transcript, Config), Config,
                        IF hook.input.cwd # <<>> THEN hook.input.cwd ELSE ProcessCwd)

\* C9: when the oracle is unavailable, throws, times out or returns a
\* malformed result, the oracle tier yields the empty list, the heuristics run
\* on the same reduced conversation and give the memories list, and the
\* invocation goes on to validation and recording and exits with 0
C9_OracleFailureFallsBack ==
    (Ended /\ hook.outcome.oracleCalled /\ hook.input.oracle.outcome \in OracleFailures)
        => /\ hook.outcome.ai = <<>>
           /\ hook.outcome.heuristicRan
           /\ hook.outcome.memories = [i \in 1..Len(HeuristicFacts) |-> RawFact(HeuristicFacts[i])]
           /\ hook.outcome.memories # <<>> => hook.outcome.validated
           /\ hook.outcome.validMemories # <<>> => hook.outcome.written
           /\ hook.outcome.exit = 0

\* the oracle failed and the record holds what the heuristics found
C9_Witness ==
    /\ Ended /\ hook.outcome.oracleCalled
    /\ hook.input.oracle.outcome \in {"throws", "timeout", "malformed"}
    /\ hook.outcome.written /\ hook.outcome.name \in DOMAIN sessions
    /\ Len(sessions[hook.outcome.name].memories) >= 2

\* a candidate passes validation: it carries a category and a content, and
\* its category belongs to the configured set when that set is non-empty
Survives(mem) ==
    /\ mem.kind = "object"
    /\ Truthy(mem.category, "")
    /\ Truthy(mem.content, <<>>)
    /\ Config.categories # {} =>
          mem.category.type = "string" /\ mem.category.value \in Config.categories

IOFailure ==
    hook.input.stdin = "error" \/ hook.input.mkdirFails \/ hook.input.writeFails

\* C11: the session-end invocation exits with 0 when it has written its
\* record and on every invocation that met no failure of input and output
\* (disabled, empty or unparsable payload, transcript missing or unparsable,
\* nothing extracted); it exits with another code only on such a failure
C11_AsStated ==
    hook.pc = "done"
        => /\ hook.outcome.exit \in {0, 1}
           /\ hook.outcome.written => hook.outcome.exit = 0
           /\ hook.outcome.exit # 0 => IOFailure

\* the most characters of a persisted content
MaxContent == 500

\* the text is the first MaxContent characters of the whole
FirstCharacters(text, whole) ==
    /\ Len(text) <= MaxContent /\ Len(text) <= Len(whole)
    /\ text = SubSeq(whole, 1, Len(text))
    /\ Len(text) = MaxContent \/ Len(text) = Len(whole)

\* C17: every fact of every Session Record has a content of at most 500
\* characters, the first 500 characters of the text form of a candidate's
\* content, and its category is a string, the text form of that candidate's
\* category
C17_ContentTruncated ==
    \A name \in DOMAIN sessions :
        \A i \in 1..Len(sessions[name].memories) :
            LET fact == sessions[name].memories[i]
            IN  /\ Len(fact.content) <= MaxContent
                /\ fact.category \in STRING
                /\ \E k \in 1..Len(hook.outcome.memories) :
                      LET mem == hook.outcome.memories[k]
                      IN  /\ mem.kind = "object"
                          /\ mem.category.type # "undefined"
                          /\ mem.content.type # "undefined"
                          /\ fact.category = CategoryString(mem.category)
                          /\ FirstCharacters(fact.content, String(mem.content))

\* a record holds a content cut to 500 characters, and one that was a number
C17_Witness ==
    /\ Ended /\ hook.outcome.written
    /\ \E name \in DOMAIN sessions :
          /\ Len(sessions[name].memories) = 2
          /\ Len(sessions[name].memories[1].content) = MaxContent
          /\ sessions[name].memories[2].content = <<"4", "2">>
    /\ \E k \in 1..Len(hook.outcome.memories) :
          /\ hook.outcome.memories[k].kind = "object"
          /\ hook.outcome.memories[k].content.type = "string"
          /\ Len(hook.outcome.memories[k].content.value) > MaxContent


\* the working directory of the session, and whether the memories the
\* heuristics gave hold a "Worked in:" fact for it
WorkingDir == IF hook.input.cwd # <<>> THEN hook.input.cwd ELSE ProcessCwd

WorkedInEmitted ==
    \E i \in 1..Len(hook.outcome.memories) :
        hook.outcome.memories[i] = Candidate("ongoing_projects", WorkedIn \o WorkingDir)

\* C25: the heuristics emit the fact "Worked in: <dir>" when, and only when,
\* the working directory differs from the directory the process runs in
C25_AsStated ==
    (Ended /\ hook.outcome.heuristicRan)
        => (WorkedInEmitted <=> WorkingDir # ProcessCwd)

-----------------------------------------------------------------------------
(* Properties of one synthesis run, checked under SpecSynthesis *)

\* the run has deduplicated what it loaded and written the document
Synthesized == synth.byCategory # <<>>

\* the fact is among the kept facts of its category
Kept(mem) ==
    \E e \in 1..Len(synth.byCategory) :
        /\ synth.byCategory[e].category = mem.category
        /\ \E x \in 1..Len(synth.byCategory[e].mems) : synth.byCategory[e].mems[x] = mem

\* the number of kept facts of the category
KeptCount(category) ==
    LET Is(entry) == entry.category = category
        entries == SelectSeq(synth.byCategory, Is)
    IN  IF entries = <<>> THEN 0 ELSE Len(entries[1].mems)

Normalized(mem) == trim(toLowerCase(mem.content))

\* both normalized contents are longer than 20 and one contains the other
Overlapping(a, b) ==
    /\ Len(Normalized(a)) > 20 /\ Len(Normalized(b)) > 20
    /\ (includes(Normalized(a), Normalized(b)) \/ includes(Normalized(b), Normalized(a)))

\* loaded facts i (the newer) and j (the older) of one category that overlap
OverlappingPair(i, j) ==
    /\ synth.memories[i].category = synth.memories[j].category
    /\ synth.memories[i].timestamp > synth.memories[j].timestamp
    /\ Overlapping(synth.memories[i], synth.memories[j])

\* a kept fact, other than mem and at least as new, of which mem is a duplicate
Subsumed(mem) ==
    \E k \in 1..Len(synth.memories) :
        LET other == synth.memories[k]
        IN  /\ other # mem /\ other.category = mem.category
            /\ other.timestamp >= mem.timestamp
            /\ Kept(other)
            /\ (Normalized(other) = Normalized(mem) \/ Overlapping(other, mem))

\* C3 as stated: of two overlapping facts of one category the newer is kept
\* and the older is not
C3_AsStated ==
    Synthesized =>
        \A i, j \in 1..Len(synth.memories) :
            OverlappingPair(i, j) => Kept(synth.memories[i]) /\ ~Kept(synth.memories[j])

\* C3: two overlapping facts of one category are never both kept; the older
\* one is kept only if the newer one was discarded as a duplicate of a kept
\* fact at least as new; the newer one is kept unless it is such a duplicate
\* or its category holds max_memories_per_category kept facts
C3_NewerOfOverlappingPairKept ==
    Synthesized =>
        \A i, j \in 1..Len(synth.memories) :
            OverlappingPair(i, j) =>
                LET newer == synth.memories[i]
                    older == synth.memories[j]
                IN  /\ ~(Kept(newer) /\ Kept(older))
                    /\ Kept(older) => Subsumed(newer)
                    /\ ~Kept(newer) =>
                          \/ Subsumed(newer)
                          \/ KeptCount(newer.category) >= Config.max_memories_per_category

\* the newer of two overlapping facts with different contents is kept and
\* the older is discarded
C3_Witness ==
    /\ Synthesized
    /\ \E i, j \in 1..Len(synth.memories) :
          /\ OverlappingPair(i, j)
          /\ Normalized(synth.memories[i]) # Normalized(synth.memories[j])
          /\ includes(Normalized(synth.memories[i]), Normalized(synth.memories[j]))
          /\ Kept(synth.memories[i]) /\ ~Kept(synth.memories[j])

\* the number of bullets that follow line i of the document
RECURSIVE Bullets(_, _)
Bullets(doc, i) ==
    IF i > Len(doc) THEN 0
    ELSE IF doc[i].kind = "bullet" THEN 1 + Bullets(doc, i + 1)
    ELSE 0

\* C4 as stated: no section of the document lists more facts than the
\* configured max_memories_per_category
C4_AsStated ==
    \A i \in 1..Len(memoryMd) :
        memoryMd[i].kind = "section"
            => Bullets(memoryMd, i + 1) <= Config.max_memories_per_category

\* the facts the run loaded from the session files it read
Loaded == loadSessionMemories(synth.store)

\* the bullets of the category's section of the document
SectionTexts(doc, category) ==
    LET Opens(i) == doc[i].kind = "section" /\ doc[i].name = formatCategoryName(category)
    IN  IF \E i \in 1..Len(doc) : Opens(i)
        THEN LET at == CHOOSE i \in 1..Len(doc) : Opens(i)
             IN  [k \in 1..Bullets(doc, at + 1) |-> doc[at + k].text]
        ELSE <<>>

\* the number of bullets of the category's section with that content,
\* compared lowercased and trimmed
SameContentCount(category, content) ==
    LET Same(text) == trim(toLowerCase(text)) = content
    IN  Len(SelectSeq(SectionTexts(memoryMd, category), Same))

\* loaded facts i and j come from two session files and have the same
\* category and, lowercased and trimmed, the same content
SameContentPair(i, j) ==
    /\ Loaded[i].source_file # Loaded[j].source_file
    /\ Loaded[i].category = Loaded[j].category
    /\ Normalized(Loaded[i]) = Normalized(Loaded[j])

\* a bullet of the section whose content overlaps the given one: both are
\* longer than 20 and one contains the other
OverlapsBullet(category, content) ==
    \E k \in 1..Len(SectionTexts(memoryMd, category)) :
        LET other == trim(toLowerCase(SectionTexts(memoryMd, category)[k]))
        IN  /\ other # content
            /\ Len(other) > 20 /\ Len(content) > 20
            /\ (includes(other, content) \/ includes(content, other))

\* C16 as stated: a content that facts of two session files share is kept
\* exactly once in its category's section
C16_AsStated ==
    synth.wrote =>
        \A i, j \in 1..Len(Loaded) :
            SameContentPair(i, j) =>
                SameContentCount(Loaded[i].category, Normalized(Loaded[i])) = 1

\* C16: a content that facts of two session files share is kept at most
\* once in its category's section, and exactly once unless the section holds
\* max_memories_per_category facts or a fact whose content overlaps it
C16_SameContentKeptOnce ==
    synth.wrote =>
        \A i, j \in 1..Len(Loaded) :
            SameContentPair(i, j) =>
                LET category == Loaded[i].category
                    count == SameContentCount(category, Normalized(Loaded[i]))
                IN  /\ count <= 1
                    /\ count = 0 =>
                          \/ Len(SectionTexts(memoryMd, category))
                                >= Config.max_memories_per_category
                          \/ OverlapsBullet(category, Normalized(Loaded[i]))

\* two session files hold the same short content in different spellings,
\* and the section lists it once
C16_Witness ==
    /\ synth.wrote
    /\ \E i, j \in 1..Len(Loaded) :
          /\ SameContentPair(i, j)
          /\ Loaded[i].content # Loaded[j].content
          /\ Len(Normalized(Loaded[i])) <= 20
          /\ Config.max_memories_per_category = 2
          /\ SameContentCount(Loaded[i].category, Normalized(Loaded[i])) = 1


\* the names of the sections of the document, in its order
SectionNames(doc) ==
    LET IsSection(line) == line.kind = "section"
        heads == SelectSeq(doc, IsSection)
    IN  [i \in 1..Len(heads) |-> heads[i].name]

\* the categories with kept facts: those of CATEGORY_ORDER in its order, and
\* the others in the order in which the loaded facts first name them
KnownKept == LET Has(category) == KeptCount(category) > 0 IN SelectSeq(CATEGORY_ORDER, Has)

OthersKept ==
    LET Has(category) == ~InCategoryOrder(category) /\ KeptCount(category) > 0
    IN  SelectSeq(CategoryKeys(Loaded, {}), Has)

\* the kept facts of the entry are ordered newest first
NewestFirst(mems) ==
    \A i \in 1..Len(mems) : \A j \in 1..Len(mems) :
        i < j => mems[i].timestamp >= mems[j].timestamp

\* C24: the document has one section per category with kept facts, the
\* known categories first in the order of CATEGORY_ORDER, then the others in
\* the order of their first occurrence; the bullets of a section are the
\* kept facts of its category in kept order, newest first
C24_AsStated ==
    (Synthesized /\ synth.wrote)
        => /\ SectionNames(memoryMd) =
                  [i \in 1..Len(KnownKept \o OthersKept) |->
                      formatCategoryName((KnownKept \o OthersKept)[i])]
           /\ \A e \in 1..Len(synth.byCategory) :
                  /\ NewestFirst(synth.byCategory[e].mems)
                  /\ SectionTexts(memoryMd, synth.byCategory[e].category) =
                         [k \in 1..Len(synth.byCategory[e].mems) |->
                             synth.byCategory[e].mems[k].content]

\* the same, for stores in which no category is named by a number
C24_NamedCategories ==
    (\A i \in 1..Len(Loaded) : arrayIndex(Loaded[i].category) < 0) => C24_AsStated

\* the kept facts x and y of the entry are duplicates of each other
KeptDuplicates(mems, x, y) ==
    \/ Normalized(mems[x]) = Normalized(mems[y])
    \/ Overlapping(mems[x], mems[y])

\* C27: the result of deduplicateMemories is pairwise duplicate-free within
\* each category (no two kept facts with equal normalized content, no two
\* with normalized contents longer than 20 of which one contains the
\* other), and the kept facts of a category are ordered newest first
C27_KeptPairwiseDistinct ==
    Synthesized =>
        \A e \in 1..Len(synth.byCategory) :
            LET mems == synth.byCategory[e].mems
            IN  /\ NewestFirst(mems)
                /\ \A x, y \in 1..Len(mems) : x # y => ~KeptDuplicates(mems, x, y)

\* three facts of one category were loaded from three files, the oldest
\* first; the newest and the oldest are kept, in that order, and the one
\* between them is dropped as a duplicate of the newest
C27_Witness ==
    /\ Synthesized
    /\ Len(synth.memories) = 3
    /\ \E e \in 1..Len(synth.byCategory) :
          LET mems == synth.byCategory[e].mems
          IN  /\ Len(mems) = 2
              /\ mems[1] = synth.memories[3]
              /\ mems[2] = synth.memories[1]
              /\ mems[1].timestamp > mems[2].timestamp
              /\ synth.memories[2].category = mems[1].category
              /\ synth.memories[2].timestamp > mems[2].timestamp
              /\ Overlapping(synth.memories[3], synth.memories[2])

\* the name of the section that line i of the document stands in
SectionOf(doc, i) ==
    LET heads == {h \in 1..i : doc[h].kind = "section"}
    IN  doc[CHOOSE h \in heads : \A g \in heads : g <= h].name

\* the content of the fact is a bullet of its category's section
InDocument(mem) ==
    \E x \in 1..Len(SectionTexts(memoryMd, mem.category)) :
        SectionTexts(memoryMd, mem.category)[x] = mem.content

\* the kept facts of the category that are at least as new as the fact
KeptBefore(mem) ==
    {k \in 1..Len(synth.memories) :
        /\ synth.memories[k].category = mem.category
        /\ synth.memories[k].timestamp >= mem.timestamp
        /\ Kept(synth.memories[k])}

\* C30: every bullet of the document is the content of a loaded fact, in
\* the section of that fact's category; a loaded fact is absent from the
\* document only if it is a duplicate of a kept fact of its category that is
\* at least as new, or if its category held max_memories_per_category kept
\* facts when the walk, newest first, came to it
C30_NothingInventedNothingDropped ==
    (Synthesized /\ synth.wrote) =>
        /\ \A i \in 1..Len(memoryMd) :
              memoryMd[i].kind = "bullet" =>
                  \E k \in 1..Len(Loaded) :
                      /\ Loaded[k].content = memoryMd[i].text
                      /\ formatCategoryName(Loaded[k].category) = SectionOf(memoryMd, i)
        /\ \A k \in 1..Len(synth.memories) :
              ~InDocument(synth.memories[k]) =>
                  \/ Subsumed(synth.memories[k])
                  \/ Cardinality(KeptBefore(synth.memories[k]))
                        >= Config.max_memories_per_category

\* under a cap of 1, a fact was left out of the document because a newer
\* fact of its category, of which it is no duplicate, was kept; and the
\* document holds a fact of a category outside CATEGORY_ORDER
C30_Witness ==
    /\ Synthesized /\ synth.wrote
    /\ Config.max_memories_per_category = 1
    /\ \E k \in 1..Len(synth.memories) :
          /\ ~InDocument(synth.memories[k])
          /\ ~Subsumed(synth.memories[k])
          /\ Cardinality(KeptBefore(synth.memories[k])) = 1
    /\ \E k \in 1..Len(synth.memories) :
          /\ ~InCategoryOrder(synth.memories[k].category)
          /\ InDocument(synth.memories[k])

-----------------------------------------------------------------------------
(* Properties of a synthesis run over records without facts, checked under
   SpecStores *)

\* the run has read the store and found no fact in it
LoadedNothing == synth.pc \notin {"idle", "load"} /\ Loaded = <<>>

\* C28: a synthesis run that loads zero facts changes nothing: from the
\* moment it has read the store, no step of it changes the document, the
\* synthesis state or a session file, and it does not reach the cleanup,
\* whatever the age of the files
C28_RunWithoutFactsChangesNothing ==
    [][LoadedNothing' =>
          /\ UNCHANGED <<memoryMd, lastSynthesis, sessions>>
          /\ synth'.pc \in {"exit", "done"}
          /\ ~synth'.wrote /\ synth'.removed = <<>>]_vars

\* a run with cleanup has ended on a store of files without facts, one of
\* them older than the retention window: the files, the earlier document
\* and the absence of a state file are as they were
C28_Witness ==
    /\ synth.pc = "done" /\ ~synth.noCleanup
    /\ Loaded = <<>> /\ synth.store # <<>> /\ sessions = synth.store
    /\ \E name \in DOMAIN sessions :
          shouldUnlink(name, cleanupCutoff(clock, OrDefault(Config.cleanup_after_days, 30)))
    /\ memoryMd = EarlierDocument
    /\ lastSynthesis = Never

-----------------------------------------------------------------------------
(* Properties of the system, checked under Spec *)

\* the document without its "Last synthesized" line
Body(doc) ==
    LET NotStamp(line) == line.kind # "synthesized"
    IN  SelectSeq(doc, NotStamp)

\* this run and the run before it both wrote the document, from the same
\* session files
RanTwiceOnSameRecords ==
    /\ synth.wrote /\ synth.previous.wrote
    /\ synth.previous.store = synth.store

\* C5: two synthesis runs in succession over the same unchanged session
\* records write the same document, apart from the synthesis timestamp line
C5_SynthesisIdempotent ==
    RanTwiceOnSameRecords => Body(memoryMd) = Body(synth.previous.doc)

\* the second run over two session files, at another time than the first
C5_Witness ==
    /\ RanTwiceOnSameRecords
    /\ Cardinality(DOMAIN synth.store) >= 2
    /\ memoryMd # synth.previous.doc
    /\ Body(memoryMd) = Body(synth.previous.doc)

\* a synthesis run without --no-cleanup has written the document and ended
CleanedUp == synth.pc = "done" /\ synth.wrote /\ ~synth.noCleanup

\* the file is older than cleanup_after_days at the time of the run
Expired(name) ==
    parseFileDate(name) < synth.time - Config.cleanup_after_days * SecondsPerDay

\* C6 as stated: after a successful run without --no-cleanup every session
\* file whose name's timestamp is older than cleanup_after_days is deleted,
\* every other one is retained, and so is every file whose name holds no
\* timestamp
C6_AsStated ==
    CleanedUp =>
        \A name \in DOMAIN synth.store :
            IF IsStamped(name) /\ Expired(name)
            THEN name \notin DOMAIN sessions
            ELSE name \in DOMAIN sessions

\* every fact of the record in the file is among the facts the run loaded
Incorporated(name) ==
    \A i \in 1..Len(sessions[name].memories) :
        \E k \in 1..Len(synth.memories) :
            /\ synth.memories[k].source_file = name
            /\ synth.memories[k].category = sessions[name].memories[i].category
            /\ synth.memories[k].content = sessions[name].memories[i].content

\* C7: a session file is deleted only after the run has written the
\* document, and every fact of a deleted file was part of what that document
\* was made from
C7_NothingDeletedBeforeWrite ==
    [][\A name \in DOMAIN sessions \ DOMAIN sessions' :
           synth.wrote /\ Incorporated(name)]_vars

\* the run crashed in the middle of its cleanup: one file is deleted, the
\* document holds its fact, and the loop had files left to look at
C7_Witness ==
    /\ synth.pc = "crashed" /\ synth.wrote
    /\ synth.removed # <<>> /\ synth.files # <<>>
    /\ sessions # <<>>
    /\ \E i \in 1..Len(memoryMd) :
          /\ memoryMd[i].kind = "bullet"
          /\ memoryMd[i].text = synth.removed[1].data.memories[1].content

\* synthesis is due: no synthesis state, or synthesis_interval_hours have
\* passed since last_synthesis
Due ==
    \/ lastSynthesis = Never
    \/ clock >= lastSynthesis + Config.synthesis_interval_hours * SecondsPerHour

\* C8: the session-start check launches synthesis only when synthesis is due
\* and at least one session file is pending
C8_LaunchOnlyWhenDueAndPending ==
    [][spawned' > spawned => Due /\ Cardinality(DOMAIN sessions) >= 1]_vars

\* a launch that waits to start, after an earlier synthesis whose interval
\* has passed
C8_Witness ==
    /\ spawned > 0
    /\ lastSynthesis # Never /\ Due
    /\ sessions # <<>>
    /\ Config.synthesis_interval_hours > 0
    /\ clock = lastSynthesis + Config.synthesis_interval_hours * SecondsPerHour

\* the text is a bullet of the section of the category in the document
Listed(category, text) ==
    \E k \in 1..Len(SectionTexts(memoryMd, category)) :
        SectionTexts(memoryMd, category)[k] = text

\* a fact with that content is held by a record of the directory dir for
\* which Live holds
HeldBy(dir, Live(_), text) ==
    \E name \in DOMAIN dir :
        /\ Live(name)
        /\ \E i \in 1..Len(dir[name].memories) : dir[name].memories[i].content = text

NotExpired(name) == ~(IsStamped(name) /\ Expired(name))

InStore(name) == TRUE

\* C14 as stated: after every synthesis run, every fact of the document
\* comes from a record that is in the store and is not expired
C14_AsStated ==
    synth.pc = "done" =>
        \A i \in 1..Len(memoryMd) :
            memoryMd[i].kind = "bullet" => HeldBy(sessions, NotExpired, memoryMd[i].text)

\* C14: after every synthesis run that found a fact, the document is the one
\* derived from the records the run read, expired ones included: every fact
\* of the document comes from a record the run read, and every category of
\* those records has its section, which lists the newest fact of the category
C14_DocumentFromRecordsRead ==
    synth.wrote =>
        /\ \A i \in 1..Len(memoryMd) :
              memoryMd[i].kind = "bullet" => HeldBy(synth.store, InStore, memoryMd[i].text)
        /\ \A i \in 1..Len(Loaded) :
              (\A j \in 1..Len(Loaded) :
                    Loaded[j].category = Loaded[i].category /\ j # i
                        => Loaded[j].timestamp < Loaded[i].timestamp)
                  => Listed(Loaded[i].category, Loaded[i].content)

\* the second run: the record the first run read is deleted, and the
\* document holds the fact of the record written since, not the deleted one
C14_Witness ==
    /\ synth.wrote /\ synth.previous.wrote
    /\ DOMAIN synth.store # {} /\ DOMAIN synth.previous.store # {}
    /\ DOMAIN synth.store \cap DOMAIN synth.previous.store = {}
    /\ memoryMd # synth.previous.doc
    /\ Body(memoryMd) # Body(synth.previous.doc)

\* C19 as stated: when a run with --no-cleanup has ended, every record it
\* read is still in the store, and the document and the synthesis state are
\* written
C19_AsStated ==
    (synth.pc = "done" /\ synth.noCleanup) =>
        /\ DOMAIN synth.store \subseteq DOMAIN sessions
        /\ synth.wrote /\ memoryMd # <<>>
        /\ lastSynthesis = synth.time

\* C19: no step of a run with --no-cleanup changes the store, and a run
\* with --no-cleanup that found a fact ends with the document and the
\* synthesis state written
C19_NoCleanupDeletesNothing ==
    [][(synth.noCleanup /\ synth.pc \notin {"idle", "done", "crashed"}) =>
          /\ sessions' # sessions => hook' # hook
          /\ synth'.pc # "cleanup"
          /\ (synth'.pc = "done" /\ synth.memories # <<>>) =>
                /\ synth.wrote /\ memoryMd # <<>>
                /\ lastSynthesis = synth.time]_vars

\* a run with --no-cleanup has ended; it wrote the document and the state,
\* and the store still holds a file older than cleanup_after_days
C19_Witness ==
    /\ synth.pc = "done" /\ synth.noCleanup /\ synth.wrote
    /\ lastSynthesis = synth.time
    /\ Config.cleanup_after_days > 0
    /\ \E name \in DOMAIN sessions : Expired(name) /\ name \in DOMAIN synth.store

\* the step is the return of a session-end invocation that wrote its record
Recorded == hook.pc = "start" /\ hook'.pc = "done" /\ hook'.outcome.written

\* the step is one turn of the cleanup loop of a synthesis run
Pruning == synth.pc = "unlink" /\ synth'.pc = "unlink"

\* C15 as stated: an invocation that records adds a file under a name no
\* record has, no step alters a record of the store, and a record leaves the
\* store only in the cleanup of a synthesis run
C15_AsStated ==
    [][/\ Recorded => hook'.outcome.name \notin DOMAIN sessions
       /\ \A name \in DOMAIN sessions :
             IF name \in DOMAIN sessions'
             THEN sessions'[name] = sessions[name]
             ELSE Pruning]_vars

\* C15: an invocation that records leaves its own record in the store under
\* the name of its second; a record is replaced only by an invocation that
\* records in the second the record was written in, and it leaves the store
\* only in the cleanup of a synthesis run
C15_RecordsOnlyAdded ==
    [][/\ Recorded =>
             /\ hook'.outcome.name \in DOMAIN sessions'
             /\ sessions'[hook'.outcome.name].timestamp = clock
             /\ sessions'[hook'.outcome.name].memories = hook'.outcome.validMemories
       /\ \A name \in DOMAIN sessions :
             IF name \in DOMAIN sessions'
             THEN sessions'[name] # sessions[name]
                      => Recorded /\ sessions[name].timestamp = clock
             ELSE Pruning]_vars

\* two invocations that ended on different days have each left a record
C15_Witness ==
    /\ hook.pc = "done" /\ hook.outcome.written
    /\ hook.outcome.name \in DOMAIN sessions
    /\ sessions[hook.outcome.name].timestamp = clock
    /\ \E name \in DOMAIN sessions :
          /\ sessions[name].timestamp < clock
          /\ sessions[name].memories # sessions[hook.outcome.name].memories

\* C18 as stated: the configuration a synthesis run loads has the value of
\* the file for every key the file specifies and the default for every other
\* key, and the retention the cleanup acts on is the cleanup_after_days of
\* that configuration
C18_AsStated ==
    /\ synth.pc # "idle" =>
          \A key \in DOMAIN DEFAULT_CONFIG :
              synth.config[key] = IF key \in DOMAIN configFile THEN configFile[key]
                                  ELSE DEFAULT_CONFIG[key]
    /\ synth.pc = "unlink" =>
          synth.cutoff = synth.time - synth.config.cleanup_after_days * SecondsPerDay

-----------------------------------------------------------------------------
(* Properties of the transcript locator, checked under SpecLocator *)

\* the invocation has looked for the transcript of its session
Located == hook.pc = "done" /\ hook.outcome.located

\* the project directory name of the payload's cwd, as the documentation of
\* cwdToProjectDirName gives it: /home/u/app is -home-u-app, C:\w is C--w
DerivedName ==
    IF hook.input.cwd = ProjectDir
    THEN <<"-", "h", "o", "m", "e", "-", "u", "-", "a", "p", "p">>
    ELSE IF hook.input.cwd = WindowsDir THEN <<"C", "-", "-", "w">>
    ELSE <<>>

\* entry k of the index of the directory is an entry of this session whose
\* path exists
IndexHit(dir, k) ==
    /\ dir.index.kind = "array" /\ k \in 1..Len(dir.index.entries)
    /\ dir.index.entries[k].sessionId = hook.input.session_id
    /\ dir.index.entries[k].path /\ dir.index.entries[k].exists

\* the directory holds the transcript: an index entry or the direct file
Holds(dir) ==
    \/ \E k \in 1..MaxIndex + 1 : IndexHit(dir, k)
    \/ dir.direct = hook.input.session_id

\* the path is the one looked up in the directory: the first index entry of
\* the session whose path exists, and the direct file when there is none
LookedUpIn(path, dir) ==
    /\ path.dir = dir.name
    /\ IF \E k \in 1..MaxIndex + 1 : IndexHit(dir, k)
       THEN /\ path.via = "index" /\ IndexHit(dir, path.entry)
            /\ \A k \in 1..(path.entry - 1) : ~IndexHit(dir, k)
       ELSE path.via = "direct" /\ path.entry = 0

\* C20: the locator returns the transcript_path that exists; otherwise the
\* lookup in the project directory of the working directory; otherwise the
\* lookup in the first project directory under the root that holds the
\* transcript; otherwise not-found, also when the root or a directory is
\* absent or unreadable, and the invocation does not fail
C20_FirstHitInOrder ==
    Located =>
        LET path == hook.outcome.transcriptPath
            dirs == hook.input.projects.dirs
            Derived(j) == hook.input.cwd # <<>> /\ dirs[j].name = DerivedName
        IN  /\ hook.outcome.exit = 0
            /\ IF hook.input.transcript_path = "exists"
               THEN path = PathOf("transcript_path", <<>>, 0)
               ELSE IF hook.input.session_id = <<>> \/ hook.input.projects.kind # "directory"
               THEN path = NoPath
               ELSE IF \E j \in 1..Len(dirs) : Derived(j) /\ Holds(dirs[j])
               THEN \E j \in 1..Len(dirs) : Derived(j) /\ LookedUpIn(path, dirs[j])
               ELSE IF \E j \in 1..Len(dirs) : dirs[j].isDirectory /\ Holds(dirs[j])
               THEN \E j \in 1..Len(dirs) :
                       /\ dirs[j].isDirectory /\ LookedUpIn(path, dirs[j])
                       /\ \A i \in 1..(j - 1) : ~(dirs[i].isDirectory /\ Holds(dirs[i]))
               ELSE path = NoPath

\* the first directory under the root holds the transcript, and the locator
\* returns the second index entry of the project directory of the working
\* directory, which comes after it
C20_Witness ==
    /\ Located /\ hook.input.transcript_path = "missing"
    /\ hook.input.cwd = WindowsDir
    /\ Len(hook.input.projects.dirs) = 2
    /\ Holds(hook.input.projects.dirs[1])
    /\ hook.input.projects.dirs[2].direct = <<"s1">>
    /\ hook.outcome.transcriptPath = PathOf("index", <<"C", "-", "-", "w">>, 2)
    /\ hook.outcome.reduced /\ hook.outcome.written

-----------------------------------------------------------------------------
(* Properties of the two hooks, checked under SpecHooks *)

\* C12: the session-start invocation exits with 0, whatever the state of the
\* config file, of the synthesis-state file and of the directories, and
\* whether or not the launch of the synthesis fails
C12_AsStated == check.pc = "done" => check.exit = 0

\* memory is paused
Paused == ~Config.enabled

\* a step that is a run of save-memory.js, and one of check-synthesis.js
HookRuns == hook.pc = "start" /\ hook'.pc = "done"
CheckRuns == check.pc = "idle" /\ check'.pc = "done"

\* C13: while enabled is false, a run of either hook leaves the Session
\* Records, the document and the synthesis state as they are; the
\* session-end run writes no record and the session-start run launches no
\* synthesis
C13_PausedHooksChangeNothing ==
    [][(Paused /\ (HookRuns \/ CheckRuns))
          => /\ sessions' = sessions
             /\ memoryMd' = memoryMd
             /\ lastSynthesis' = lastSynthesis
             /\ spawned' = spawned
             /\ HookRuns => ~hook'.outcome.written
             /\ CheckRuns => ~check'.needsSynthesis]_vars

\* paused after records and a document were made, a session has ended with
\* a fact in its payload that is written when memory is enabled, while a
\* synthesis is due
C13_Witness ==
    /\ Paused
    /\ hook.pc = "done" /\ hook.input \in SystemInputs
    /\ ~hook.outcome.written /\ hook.outcome.exit = 0
    /\ sessions # <<>> /\ memoryMd # <<>>
    /\ needsSynthesis(DEFAULT_CONFIG, getLastSynthesisTime(lastSynthesis), clock,
                      countPendingSessions(sessions))
    /\ spawned = 0

-----------------------------------------------------------------------------
(* Properties of the conversation reducer, checked under SpecReducer *)

\* the invocation has reduced its transcript to a conversation text
Reduced == hook.pc = "done" /\ hook.outcome.reduced /\ hook.outcome.conversation # <<>>

\* an entry of the transcript that is a user or assistant message
IsMessage(entry) ==
    /\ entry.json /\ entry.hasMessage /\ ~entry.isMeta
    /\ entry.type \notin {"", "file-history-snapshot", "summary", "progress"}
    /\ entry.content.kind # "none"
    /\ entry.role \in {"user", "assistant"}

\* its text after filtering, and its ROLE: text line
FilteredText(entry) ==
    IF entry.role = "user" THEN extractHumanText(entry.content)
    ELSE extractAssistantText(entry.content)

RoleLine(entry) ==
    (IF entry.role = "user" THEN UserPrefix ELSE AssistantPrefix) \o FilteredText(entry)

\* the lines of the messages whose text has at least n characters, in the
\* order of the transcript
LinesInOrder(transcript, n) ==
    LET Long(entry) == IsMessage(entry) /\ Len(FilteredText(entry)) >= n
        kept == SelectSeq(transcript, Long)
    IN  [i \in 1..Len(kept) |-> RoleLine(kept[i])]

\* the lines of the messages the reducer takes for retained
RetainedLines == LinesInOrder(hook.input.transcript, 6)

\* text is the lines from the k-th on, joined
IsSuffixFrom(text, lines, k) == text = Join(SubSeq(lines, k, Len(lines)), BlankLine)

\* C21: when the retained messages, serialized, exceed MAX_CONVERSATION_BYTES,
\* the conversation text is a suffix of them (the most recent), and it has
\* at most MAX_CONVERSATION_BYTES bytes
C21_AsStated ==
    (Reduced /\ byteLength(Join(RetainedLines, BlankLine)) > MAX_CONVERSATION_BYTES)
        => /\ \E k \in 1..Len(RetainedLines) :
                  IsSuffixFrom(hook.outcome.conversation, RetainedLines, k)
           /\ byteLength(hook.outcome.conversation) <= MAX_CONVERSATION_BYTES

\* C22: the conversation text lists the retained messages as ROLE: text
\* lines in the order of the transcript, whatever the order of their roles
C22_AsStated ==
    (Reduced /\ byteLength(Join(RetainedLines, BlankLine)) <= MAX_CONVERSATION_BYTES)
        => IsSuffixFrom(hook.outcome.conversation, RetainedLines, 1)

\* C23: a message is discarded as noise exactly when its filtered text has
\* fewer than 5 characters: messageCount counts the messages with 5 or more
C23_AsStated ==
    (hook.pc = "done" /\ hook.outcome.reduced)
        => hook.outcome.messageCount = Len(LinesInOrder(hook.input.transcript, 5))

-----------------------------------------------------------------------------
(* Properties of the synthesis state and of concurrent runs, checked under
   Spec *)

\* the step ends a synthesis run with exit code 0
SynthReturns == synth.pc \in {"exit", "unlink"} /\ synth'.pc = "done"

\* C26 as stated: at the end of every synthesis run that exits with 0 there
\* is a state file, and when the run took a synthesis time, last_synthesis
\* is that time
C26_AsStated ==
    [][SynthReturns => /\ lastSynthesis' # Never
                       /\ synth.wrote => lastSynthesis' = synth.time]_vars

\* C26: at the end of every synthesis run that loaded a fact and exits with
\* 0, last_synthesis is the time of that run, the time at which it wrote
\* the document; and with no state file, the session-start check finds
\* synthesis needed at any time, as soon as a session file is pending
C26_StateRewrittenAfterSynthesis ==
    [][/\ (SynthReturns /\ synth.memories # <<>>)
             => synth.wrote /\ lastSynthesis' = synth.time
       /\ (CheckRuns /\ Config.enabled /\ lastSynthesis = Never)
             => (check'.needsSynthesis <=> sessions # <<>>)]_vars

\* a run that started on a later day than the first has ended and
\* last_synthesis is the time at which it wrote the document
C26_Witness ==
    /\ synth.pc = "done" /\ synth.wrote
    /\ synth.time > 0 /\ lastSynthesis = synth.time

\* the retention the run acts on is positive
PositiveRetention == OrDefault(synth.config.cleanup_after_days, 30) > 0

\* the step is the read of the store by a synthesis run
Loads == synth.pc = "load" /\ synth'.pc \in {"write", "exit"}

\* C29: under any interleaving of a synthesis run with session-end
\* invocations, and a positive retention, a record that leaves the store is
\* one the run loaded, as the run loaded it; a record written after the run
\* read the store stays, and the run that reads the store next loads every
\* fact of every record in it
C29_CleanupSparesNewRecords ==
    [][/\ PositiveRetention =>
             \A name \in DOMAIN sessions \ DOMAIN sessions' :
                 /\ name \in DOMAIN synth.store
                 /\ sessions[name] = synth.store[name]
       /\ Loads => \A name \in DOMAIN sessions : Incorporated(name)']_vars

\* the cleanup of a run has deleted a record the run loaded, and the store
\* holds a record that was written after the run read it
C29_Witness ==
    /\ synth.pc = "unlink" /\ synth.removed # <<>>
    /\ PositiveRetention
    /\ \E name \in DOMAIN sessions :
          /\ name \notin DOMAIN synth.store
          /\ sessions[name].timestamp = clock
          /\ sessions[name].memories # <<>>

=============================================================================
